---- MODULE Spec2Model ----
(***************************************************************************)
(* Real-time session orchestrator of the holiday-trivia quiz server        *)
(* (src/backend/main.py): the participant and moderator websocket          *)
(* handlers, the session state they mutate, the countdown tasks and the    *)
(* wheel-of-fortune reveal engine, over the Answer/Question/Game tables    *)
(* of src/backend/models.py.                                               *)
(*                                                                         *)
(* asyncio runs one handler or task at a time and switches only at an      *)
(* await; every action below is one handler invocation (one received       *)
(* message) or one task step between two sleeps.                           *)
(***************************************************************************)
EXTENDS Integers, Sequences, FiniteSets, TLC

None == "None"

(***************************************************************************)
(* Bounds of the model.                                                    *)
(***************************************************************************)
MaxConns == 3        \* participant connections that are ever opened
MaxRows == 4         \* rows of the answers table
MaxRetry == 3        \* cap on Answer.retry_count
MaxQuestions == 3    \* rows of the questions table (and ids handed out)
MaxGames == 2        \* rows of the games table
MaxTasks == 2        \* countdown tasks alive at once
MaxEngines == 2      \* reveal-engine tasks alive at once

(***************************************************************************)
(* Text.  A str is a sequence of one-character strings.                    *)
(***************************************************************************)
LowerSeq == <<"a", "b", "c", "e", "n", "o", "t", "w">>
UpperSeq == <<"A", "B", "C", "E", "N", "O", "T", "W">>
Digits == <<"0", "1", "2", "3", "4", "5", "6", "7", "8", "9">>

InSeq(c, s) == \E i \in 1..Len(s) : s[i] = c
IndexIn(c, s) == CHOOSE i \in 1..Len(s) : s[i] = c

isalpha(c) == InSeq(c, LowerSeq) \/ InSeq(c, UpperSeq)
isdigit(c) == InSeq(c, Digits)
isalnum(c) == isalpha(c) \/ isdigit(c)
isspace(c) == c = " "

upper(c) == IF InSeq(c, LowerSeq) THEN UpperSeq[IndexIn(c, LowerSeq)] ELSE c
lower(c) == IF InSeq(c, UpperSeq) THEN LowerSeq[IndexIn(c, UpperSeq)] ELSE c

RECURSIVE lstrip(_)
lstrip(s) == IF s # <<>> /\ isspace(Head(s)) THEN lstrip(Tail(s)) ELSE s

RECURSIVE rstrip(_)
rstrip(s) ==
    IF s # <<>> /\ isspace(s[Len(s)]) THEN rstrip(SubSeq(s, 1, Len(s) - 1)) ELSE s

strip(s) == lstrip(rstrip(s))

str_lower(s) == [i \in 1..Len(s) |-> lower(s[i])]

\* (x or "").strip().lower(), the normal form both sides of a match are put in
normalise(s) == str_lower(strip(s))

\* str.split(): the maximal runs of non-space characters, in order
RECURSIVE split_from(_, _, _)
split_from(s, i, word) ==
    IF i > Len(s)
    THEN IF word = <<>> THEN <<>> ELSE <<word>>
    ELSE IF isspace(s[i])
         THEN (IF word = <<>> THEN <<>> ELSE <<word>>) \o split_from(s, i + 1, <<>>)
         ELSE split_from(s, i + 1, Append(word, s[i]))

split(s) == split_from(s, 1, <<>>)

(***************************************************************************)
(* Scoring pipeline.                                                       *)
(***************************************************************************)
MaxScore == 30
SemanticThreshold == 70     \* the 0.7 similarity threshold, in hundredths

\* the None of a function returning a number (texts here carry no sign)
NoNumber == -1

\* int(text) of a non-empty all-digit text
RECURSIVE digits_value(_)
digits_value(s) ==
    IF s = <<>> THEN 0
    ELSE 10 * digits_value(SubSeq(s, 1, Len(s) - 1)) + (IndexIn(s[Len(s)], Digits) - 1)

all_digits(s) == s # <<>> /\ \A i \in 1..Len(s) : isdigit(s[i])

\* w2n.word_to_num on one word: a digit string is its value, a number word is
\* looked up, anything else raises ValueError (NoNumber here)
word_to_num(w) ==
    CASE all_digits(w) -> digits_value(w)
      [] w = <<"o", "n", "e">> -> 1
      [] w = <<"t", "w", "o">> -> 2
      [] w = <<"t", "e", "n">> -> 10
      [] OTHER -> NoNumber

RECURSIVE first_number(_)
first_number(words) ==
    IF words = <<>> THEN NoNumber
    ELSE IF word_to_num(Head(words)) # NoNumber THEN word_to_num(Head(words))
         ELSE first_number(Tail(words))

extract_number_from_text(text) ==
    IF strip(text) = <<>> THEN NoNumber
    ELSE LET t == normalise(text)
         IN IF all_digits(t) THEN digits_value(t) ELSE first_number(split(t))

abs(x) == IF x < 0 THEN -x ELSE x
max2(a, b) == IF a >= b THEN a ELSE b
min2(a, b) == IF a <= b THEN a ELSE b

\* a closeness score without its floor of 1
compute_numeric_score_unfloored(correct_str, user_str) ==
    LET correct_num == extract_number_from_text(correct_str)
        user_num == extract_number_from_text(user_str)
    IN IF correct_num = NoNumber \/ user_num = NoNumber THEN 0
       ELSE IF user_num = correct_num THEN MaxScore
       ELSE min2(MaxScore \div (abs(user_num - correct_num) + 1), MaxScore - 1)

compute_numeric_score(correct_str, user_str) ==
    LET correct_num == extract_number_from_text(correct_str)
        user_num == extract_number_from_text(user_str)
    IN IF correct_num = NoNumber THEN 0
       ELSE IF user_num = NoNumber THEN 0
       ELSE IF user_num = correct_num THEN MaxScore
       ELSE LET diff == abs(user_num - correct_num)
                closeness_score == max2(1, MaxScore \div (diff + 1))
            IN min2(closeness_score, MaxScore - 1)

\* sim is the cosine similarity returned by the embedding model, in hundredths
compute_semantic_score(correct_str, user_str, sim) ==
    IF strip(user_str) = <<>> \/ strip(correct_str) = <<>> THEN 0
    ELSE IF sim >= SemanticThreshold THEN (MaxScore * sim) \div 100 ELSE 0

\* the phrase-reveal branch: max(0, 30 - int(elapsed_time))
wof_seconds_remaining(elapsed) == max2(0, MaxScore - elapsed \div 10)

\* a remaining time that is not floored at 0
seconds_remaining_unfloored(elapsed) == (MaxScore * 10 - elapsed) \div 10

\* int(max(0, 30 - elapsed_time)); elapsed is the clock difference in tenths of
\* a second, int() drops the fraction
seconds_remaining(elapsed) == max2(0, MaxScore * 10 - elapsed) \div 10

(***************************************************************************)
(* Top-10 finalization of a numeric question                               *)
(* (compute_top10_proportional_scores).                                    *)
(***************************************************************************)
TopCount == 10
TopScore == 25

\* 1 - diff / max_diff is computed in binary floating point: for these
\* (diff, max_diff), max_diff up to 40, 25 times the ratio falls just below
\* the whole number it equals exactly and int() drops one
FloatShort ==
    { <<4, 5>>, <<8, 10>>, <<12, 15>>, <<16, 20>>, <<14, 25>>, <<17, 25>>, <<20, 25>>,
      <<23, 25>>, <<24, 30>>, <<28, 35>>, <<32, 40>> }

\* 25 when max_diff is 0, int(25 * closeness_ratio) + 1 otherwise
proportional_score(diff, max_diff) ==
    IF max_diff = 0 THEN TopScore
    ELSE (TopScore * (max_diff - diff)) \div max_diff
         - (IF <<diff, max_diff>> \in FloatShort THEN 1 ELSE 0) + 1

\* a finalization that adds what it computes to the score the row holds
assign_score_added(row, score, is_correct) ==
    [row EXCEPT !.score = row.score + score, !.is_correct = is_correct]

\* ans.score = ...; ans.is_correct = ...
assign_score(row, score, is_correct) ==
    [row EXCEPT !.score = score, !.is_correct = is_correct]

\* the rows the query returns: a game_id of None matches no row
question_rows(rows, question_id, game_id) ==
    {i \in 1..Len(rows) : /\ game_id # 0
                          /\ rows[i].question_id = question_id
                          /\ rows[i].game_id = game_id}

diff_of(row, correct_num) == abs(extract_number_from_text(row.content) - correct_num)

\* position of row i after the stable sort by difference, from 0
sorted_position(rows, non_exact, i, correct_num) ==
    Cardinality({j \in non_exact :
        \/ diff_of(rows[j], correct_num) < diff_of(rows[i], correct_num)
        \/ diff_of(rows[j], correct_num) = diff_of(rows[i], correct_num) /\ j < i})

\* The table after the call.  The commit is reached only when some answer is
\* not exact; without it the session is closed with its changes unwritten.
compute_top10_proportional_scores(rows, question_id, game_id, correct_answer) ==
    LET correct_num == extract_number_from_text(correct_answer)
        found == question_rows(rows, question_id, game_id)
        numeric == {i \in found : extract_number_from_text(rows[i].content) # NoNumber}
        exact == {i \in numeric : extract_number_from_text(rows[i].content) = correct_num}
        non_exact == numeric \ exact
        top_10 == {i \in non_exact : sorted_position(rows, non_exact, i, correct_num) < TopCount}
        max_diff == CHOOSE d \in {diff_of(rows[i], correct_num) : i \in top_10} :
                       \A i \in top_10 : diff_of(rows[i], correct_num) <= d
    IN IF correct_num = NoNumber \/ top_10 = {} THEN rows
       ELSE [i \in 1..Len(rows) |->
               IF i \in exact THEN assign_score(rows[i], MaxScore, TRUE)
               ELSE IF i \in top_10
                    THEN assign_score(rows[i],
                                      proportional_score(diff_of(rows[i], correct_num), max_diff),
                                      FALSE)
               ELSE IF i \in non_exact THEN assign_score(rows[i], 0, FALSE)
               ELSE rows[i]]

(***************************************************************************)
(* Wheel-of-fortune board.                                                 *)
(***************************************************************************)
\* [False] * len(phrase), then True at every non-alphanumeric character
initial_mask(phrase) == [i \in 1..Len(phrase) |-> ~isalnum(phrase[i])]

all_revealed(mask) == \A i \in 1..Len(mask) : mask[i]

\* One word of the board.  idx is the (1-based) position the walk believes it
\* is at; reading the mask past its end is the IndexError of the code.
RECURSIVE mask_word(_, _, _, _)
mask_word(word, mask, idx, shown) ==
    IF word = <<>> THEN [ok |-> TRUE, display |-> shown, idx |-> idx]
    ELSE IF idx > Len(mask) THEN [ok |-> FALSE, display |-> shown, idx |-> idx]
    ELSE LET char == Head(word)
             d == IF mask[idx] THEN char ELSE IF isalpha(char) THEN "_" ELSE char
         IN mask_word(Tail(word), mask, idx + 1, Append(shown, d))

RECURSIVE mask_words(_, _, _, _)
mask_words(words, phrase, mask, idx) ==
    IF words = <<>> THEN [ok |-> TRUE, words |-> <<>>]
    ELSE LET w == mask_word(Head(words), mask, idx, <<>>)
             after == IF w.idx <= Len(phrase) /\ phrase[w.idx] = " "
                      THEN w.idx + 1 ELSE w.idx
         IN IF ~w.ok THEN [ok |-> FALSE, words |-> <<>>]
            ELSE LET rest == mask_words(Tail(words), phrase, mask, after)
                 IN [ok |-> rest.ok, words |-> <<w.display>> \o rest.words]

(***************************************************************************)
(* Question kinds and the question banks a database file may hold.        *)
(***************************************************************************)
ALLOWED_QUESTION_TYPES ==
    {"fill_in_the_blank", "multiple_choice", "word_cloud", "pictionary",
     "wheel_of_fortune"}

Phrase1 == <<"A", "b", " ", "a">>
Phrase2 == <<"c", "!", "t">>

\* what add_question may carry: (type, correct_answer)
QuestionInputs ==
    { [type |-> "wheel_of_fortune", correct_answer |-> Phrase1],
      [type |-> "wheel_of_fortune", correct_answer |-> Phrase2],
      [type |-> "multiple_choice", correct_answer |-> <<"B">>],
      [type |-> "fill_in_the_blank", correct_answer |-> <<"7">>],
      [type |-> "pictionary", correct_answer |-> <<"c", "a", "t">>],
      [type |-> "word_cloud", correct_answer |-> <<"n", "o", "n", "e">>] }

Row(id, qi) ==
    [id |-> id, type |-> qi.type, correct_answer |-> qi.correct_answer, order |-> 0]

\* the answer texts a participant may send
AnswerTexts ==
    { <<" ", "a", "B", " ", "A">>,     \* Phrase1 up to case and outer blanks
      <<"b", " ">>,                    \* the multiple-choice answer, lower case
      <<"7">>, <<"t", "e", "n">> }     \* numbers

\* tenths of a second since the question was presented, at the moment of a
\* submission
ElapsedChoices == {30}

\* similarities the embedding model may return, in hundredths
SimChoices == {90}

\* the name fields a join may carry; a name held by the server is never empty
NameInputs == { <<"a">>, <<" ", "a">>, <<"b">>, <<" ">> }
NoName == <<>>

(***************************************************************************)
(* State.                                                                  *)
(***************************************************************************)
VARIABLES
    questions,              \* questions table, rows in id order
    games,                  \* games table: status of game id i at index i
    answers,                \* answers table, rows in id order
    current_game,           \* id of the Game object held, 0 for None
    current_question,       \* Question object held, NoQuestion for None
    current_question_index,
    total_questions,
    question_timer,         \* handle: 0 None, a live task, or DoneTask
    question_start_time,
    wof_revealed_indices,   \* <<>> for None, <<mask>> otherwise
    wof_reveal_task,        \* handle: 0 None, a live engine, or DoneTask
    wof_winner,             \* a name, or NoName for None
    wof_tile_duration,
    word_cloud_scored,
    timers,                 \* countdown tasks
    engines,                \* reveal-engine tasks
    pstate,                 \* per participant connection: where its handler is
    pname,                  \* per participant connection: the handler's participant.name
    participant_connections,\* participant_manager.active_connections
    last,                   \* the message or task step handled last
    outbox,                 \* what that step sent
    wc_done                 \* history: the question shown has had its word cloud finalized

vars ==
    << questions, games, answers, current_game, current_question,
       current_question_index, total_questions, question_timer,
       question_start_time, wof_revealed_indices, wof_reveal_task, wof_winner,
       wof_tile_duration, word_cloud_scored, timers, engines, pstate, pname,
       participant_connections, last, outbox, wc_done >>

NoQuestion == [id |-> 0, type |-> None, correct_answer |-> <<>>]
DoneTask == -1      \* a handle on a task that has finished or was cancelled

Conns == 1..MaxConns
FreeTimer == [live |-> FALSE, kind |-> None, time_left |-> 0, stale |-> FALSE, ended |-> FALSE]
FreeEngine == [live |-> FALSE, phrase |-> <<>>, stale |-> FALSE]

\* the Question object as the handlers hold it
Held(q) == [id |-> q.id, type |-> q.type, correct_answer |-> q.correct_answer]

Event(op, conn, qid) == [op |-> op, conn |-> conn, qid |-> qid]

\* a message; src is the countdown or engine task sending it (0: a handler)
Msg(type, to, conn, src, val) ==
    [type |-> type, to |-> to, conn |-> conn, src |-> src, val |-> val, body |-> <<>>]

Feedback(conn, src, correct, score, total_score, retry_count) ==
    [type |-> "personal_feedback", to |-> "participant", conn |-> conn, src |-> src,
     val |-> retry_count, body |-> << IF correct THEN 1 ELSE 0, score, total_score >>]

\* wof_update goes to the moderators only; val is 1 when finished
WofUpdate(src, words, finished) ==
    [type |-> "wof_update", to |-> "admins", conn |-> 0, src |-> src,
     val |-> IF finished THEN 1 ELSE 0, body |-> words]

ToAdmins(type, src, val) == Msg(type, "admins", 0, src, val)
ToParticipants(type, src, val) == Msg(type, "participants", 0, src, val)
ToBoth(type, src, val) == <<ToParticipants(type, src, val), ToAdmins(type, src, val)>>

InitWith(bank) ==
    /\ questions = bank
    /\ games = <<>>
    /\ answers = <<>>
    /\ current_game = 0
    /\ current_question = NoQuestion
    /\ current_question_index = 0
    /\ total_questions = 0
    /\ question_timer = 0
    /\ question_start_time = None
    /\ wof_revealed_indices = <<>>
    /\ wof_reveal_task = 0
    /\ wof_winner = NoName
    /\ wof_tile_duration = 2
    /\ word_cloud_scored = FALSE
    /\ timers = [t \in 1..MaxTasks |-> FreeTimer]
    /\ engines = [e \in 1..MaxEngines |-> FreeEngine]
    /\ pstate = [c \in Conns |-> "new"]
    /\ pname = [c \in Conns |-> NoName]
    /\ participant_connections = {}
    /\ last = Event("init", 0, 0)
    /\ outbox = <<>>
    /\ wc_done = FALSE

(***************************************************************************)
(* Tasks.  asyncio runs a created task up to its first sleep before it     *)
(* hands any later message to a handler (the ready queue is first-in       *)
(* first-out), so creating a task and its run up to that sleep are one     *)
(* step; afterwards each wake-up is a step of its own.                     *)
(***************************************************************************)
DefaultDuration == 30
PictionaryDuration == 60
ReadyValue == -1        \* the "Ready..." shown for a phrase-reveal question

LiveTimers == {t \in 1..MaxTasks : timers[t].live}
LiveEngines == {e \in 1..MaxEngines : engines[e].live}

FreeSlot(tbl) == CHOOSE k \in DOMAIN tbl : ~tbl[k].live /\ \A j \in DOMAIN tbl : ~tbl[j].live => k <= j
HasFreeSlot(tbl) == \E k \in DOMAIN tbl : ~tbl[k].live

\* task.cancel(): a live task stops where it sleeps; a finished one is unaffected
CancelTimer(tbl, handle) ==
    IF handle \in DOMAIN tbl THEN [tbl EXCEPT ![handle] = FreeTimer] ELSE tbl
CancelEngine(tbl, handle) ==
    IF handle \in DOMAIN tbl THEN [tbl EXCEPT ![handle] = FreeEngine] ELSE tbl

\* history: the countdowns that survive end_quiz belong to the game it ended
MarkEnded(tbl) == [k \in DOMAIN tbl |-> IF tbl[k].live THEN [tbl[k] EXCEPT !.ended = TRUE] ELSE tbl[k]]

\* history: the tasks that survive an advance belong to a previous question
MarkStale(tbl) == [k \in DOMAIN tbl |-> IF tbl[k].live THEN [tbl[k] EXCEPT !.stale = TRUE] ELSE tbl[k]]

\* a handle after its task was cancelled or has finished is still a Task object
Spent(handle) == IF handle = 0 THEN 0 ELSE DoneTask

\* 60 for pictionary, 30 otherwise, read when the task starts
\* a countdown that lasts 30 seconds whatever the question is
question_duration_default(cq) == DefaultDuration

question_duration(cq) ==
    IF cq # NoQuestion /\ cq.type = "pictionary" THEN PictionaryDuration ELSE DefaultDuration

is_active_game == current_game # 0 /\ games[current_game] = "active"

\* order_by(Question.order), ties in id order
RECURSIVE insert_by_order(_, _)
insert_by_order(q, sorted) ==
    IF sorted = <<>> THEN <<q>>
    ELSE IF q.order <= Head(sorted).order THEN <<q>> \o sorted
    ELSE <<Head(sorted)>> \o insert_by_order(q, Tail(sorted))

RECURSIVE sort_by_order(_)
sort_by_order(qs) ==
    IF qs = <<>> THEN <<>> ELSE insert_by_order(Head(qs), sort_by_order(Tail(qs)))

(***************************************************************************)
(* Moderator: quiz lifecycle.                                              *)
(***************************************************************************)
\* start_quiz: nothing is asked of the state the session is in
start_quiz_allowed == TRUE

StartQuiz ==
    /\ start_quiz_allowed
    /\ Len(games) < MaxGames
    /\ answers' = <<>>
    /\ games' = Append(games, "active")
    /\ current_game' = Len(games) + 1
    /\ total_questions' = Len(questions)
    /\ current_question_index' = 0
    /\ last' = Event("start_quiz", 0, 0)
    /\ outbox' = << Msg("quiz_started", "admin", 0, 0, Len(questions)),
                    ToParticipants("quiz_started", 0, Len(questions)) >>
    /\ UNCHANGED << wc_done, questions, current_question, question_timer, question_start_time,
                    wof_revealed_indices, wof_reveal_task, wof_winner,
                    wof_tile_duration, word_cloud_scored, timers, engines, pstate,
                    pname, participant_connections >>

\* the two early returns of next_question: total is the live row count
next_question_allowed(total) == is_active_game /\ current_question_index < total

\* the handler runs this after next_question whether or not it advanced
pushes_question(cq) == cq # NoQuestion

NextQuestion ==
    LET allowed == next_question_allowed(Len(questions))
        question == sort_by_order(questions)[current_question_index + 1]
        cq == IF allowed THEN Held(question) ELSE current_question
        reset == IF allowed /\ question_timer # 0
                 THEN << ToAdmins("timer_update", 0,
                                  IF current_question.type = "wheel_of_fortune"
                                  THEN ReadyValue ELSE DefaultDuration) >>
                 ELSE <<>>
        timers1 == IF allowed THEN MarkStale(CancelTimer(timers, question_timer)) ELSE timers
        handle1 == IF allowed THEN Spent(question_timer) ELSE question_timer
        push == pushes_question(cq)
        starts == push /\ cq.type # "wheel_of_fortune"
        t == FreeSlot(timers1)
        d == question_duration(cq)
    IN /\ starts => HasFreeSlot(timers1)
       /\ current_question' = cq
       /\ current_question_index' =
              IF allowed THEN current_question_index + 1 ELSE current_question_index
       /\ question_start_time' = IF allowed THEN "set" ELSE question_start_time
       /\ engines' = IF allowed THEN MarkStale(CancelEngine(engines, wof_reveal_task))
                     ELSE engines
       /\ wof_reveal_task' = IF allowed THEN 0 ELSE wof_reveal_task
       /\ wof_winner' = IF allowed THEN NoName ELSE wof_winner
       /\ wof_revealed_indices' =
              IF ~allowed THEN wof_revealed_indices
              ELSE IF question.type = "wheel_of_fortune"
                   THEN <<initial_mask(question.correct_answer)>>
                   ELSE <<>>
       /\ word_cloud_scored' = FALSE
       /\ wc_done' = IF allowed THEN FALSE ELSE wc_done
       /\ timers' = IF starts
                    THEN [timers1 EXCEPT ![t] = [live |-> TRUE, kind |-> "question",
                                                 time_left |-> d, stale |-> FALSE, ended |-> FALSE]]
                    ELSE timers1
       /\ question_timer' = IF starts THEN t ELSE handle1
       /\ last' = Event(IF allowed THEN "next_question" ELSE "next_question_refused", 0, cq.id)
       /\ outbox' = reset
                    \o (IF push THEN << ToAdmins("question_pushed", 0, cq.id),
                                        ToParticipants("question", 0, cq.id) >>
                        ELSE <<>>)
                    \o (IF starts THEN ToBoth("timer_update", t, d) ELSE <<>>)
       /\ UNCHANGED << questions, games, answers, current_game, total_questions,
                       wof_tile_duration, pstate, pname, participant_connections >>

\* end_quiz(db): the game row is marked, the countdown handle cancelled
EndQuizEffect ==
    /\ games' = IF current_game # 0 THEN [games EXCEPT ![current_game] = "finished"]
                ELSE games
    /\ current_game' = 0
    /\ current_question' = NoQuestion
    /\ timers' = MarkEnded(CancelTimer(timers, question_timer))
    /\ question_timer' = 0

EndQuiz ==
    /\ EndQuizEffect
    /\ last' = Event("end_quiz", 0, 0)
    /\ outbox' = << ToAdmins("quiz_ended", 0, 0), ToParticipants("quiz_ended", 0, 0) >>
    /\ UNCHANGED << wc_done, questions, answers, current_question_index, total_questions,
                    question_start_time, wof_revealed_indices, wof_reveal_task,
                    wof_winner, wof_tile_duration, word_cloud_scored, engines,
                    pstate, pname, participant_connections >>

(***************************************************************************)
(* Word-cloud finalization (score_word_cloud_and_reveal).                  *)
(***************************************************************************)
\* the rows of the current question in the current game get score 0
wc_scored_answers(rows) ==
    [i \in 1..Len(rows) |->
        IF rows[i].question_id = current_question.id /\ rows[i].game_id = current_game
        THEN [rows[i] EXCEPT !.score = 0, !.is_correct = FALSE]
        ELSE rows[i]]

RECURSIVE wc_feedback(_, _)
wc_feedback(rows, src) ==
    IF rows = <<>> THEN <<>>
    ELSE LET r == Head(rows)
         IN (IF r.question_id = current_question.id /\ r.game_id = current_game
                /\ r.user_id \in participant_connections
             THEN << Msg("personal_feedback", "participant", r.user_id, src, r.retry_count) >>
             ELSE <<>>) \o wc_feedback(Tail(rows), src)

\* runs: the flag is clear; reveals: there is a question and a game to reveal
wc_runs == ~word_cloud_scored
wc_reveals == wc_runs /\ current_question # NoQuestion /\ current_game # 0

wc_messages(rows, src, confirm) ==
    IF ~wc_reveals THEN <<>>
    ELSE wc_feedback(rows, src)
         \o << ToAdmins("word_cloud_revealed", src, current_question.id) >>
         \o (IF confirm THEN << Msg("reveal_confirmed", "admin", 0, src, 0) >> ELSE <<>>)
         \o << ToParticipants("word_cloud_scoring_complete", src, current_question.id) >>

(***************************************************************************)
(* Word-cloud clustering (cluster_word_cloud_answers).  The embedding      *)
(* model is an input: similar is the set of pairs {t1, t2} of different    *)
(* texts whose cosine similarity reaches the threshold; a text is similar  *)
(* to itself.                                                              *)
(***************************************************************************)
close_enough(similar, t1, t2) == t1 = t2 \/ {t1, t2} \in similar

\* a representative that is the text of the first member
most_common_first_member(texts) == texts[1]

\* Counter(texts).most_common(1)[0][0]: the most frequent text, the one met
\* first among equally frequent ones
most_common(texts) ==
    LET count(t) == Cardinality({p \in 1..Len(texts) : texts[p] = t})
        best == {p \in 1..Len(texts) : \A q \in 1..Len(texts) : count(texts[q]) <= count(texts[p])}
    IN texts[CHOOSE p \in best : \A q \in best : p <= q]

\* the indices of a set in rising order
RECURSIVE rising(_)
rising(set) ==
    IF set = {} THEN <<>>
    ELSE LET m == CHOOSE x \in set : \A y \in set : x <= y
         IN <<m>> \o rising(set \ {m})

\* the outer loop from index i on: every index not yet visited opens a cluster
\* and takes the later unvisited indices similar to it
RECURSIVE cluster_loop(_, _, _, _, _)
cluster_loop(i, visited, clusters, answer_texts, similar) ==
    IF i > Len(answer_texts) THEN clusters
    ELSE IF i \in visited
         THEN cluster_loop(i + 1, visited, clusters, answer_texts, similar)
         ELSE LET cluster == {i} \cup {j \in (i + 1)..Len(answer_texts) :
                                          /\ j \notin visited
                                          /\ close_enough(similar, answer_texts[i], answer_texts[j])}
              IN cluster_loop(i + 1, visited \cup cluster, Append(clusters, rising(cluster)),
                              answer_texts, similar)

\* cluster_map as a sequence indexed from 1: answers is a sequence of
\* <<user_id, answer_string>>
cluster_word_cloud_answers(pairs, similar) ==
    LET user_ids == [i \in 1..Len(pairs) |-> pairs[i][1]]
        answer_texts == [i \in 1..Len(pairs) |-> pairs[i][2]]
        clusters == cluster_loop(1, {}, <<>>, answer_texts, similar)
    IN [idx \in 1..Len(clusters) |->
           LET cluster == clusters[idx]
               cluster_answers == [p \in 1..Len(cluster) |-> answer_texts[cluster[p]]]
           IN [users |-> [p \in 1..Len(cluster) |-> user_ids[cluster[p]]],
               answers |-> cluster_answers,
               rep |-> most_common(cluster_answers)]]

\* what score_word_cloud_and_reveal hands over: (user_id, content.strip()) of
\* the rows of the question whose content is not blank
RECURSIVE cloud_pairs(_)
cloud_pairs(rows) ==
    IF rows = <<>> THEN <<>>
    ELSE (IF Head(rows).question_id = current_question.id /\ Head(rows).game_id = current_game
             /\ strip(Head(rows).content) # <<>>
          THEN << << Head(rows).user_id, strip(Head(rows).content) >> >>
          ELSE <<>>) \o cloud_pairs(Tail(rows))

(***************************************************************************)
(* Countdown tasks (start_question_timer, start_wof_timer).                *)
(***************************************************************************)
\* a task whose step ends the session
task_globals_dropped ==
    /\ current_game' = 0
    /\ current_question' = NoQuestion
    /\ UNCHANGED << current_question_index, total_questions >>

\* The background tasks declare global only for what they assign
\* (word_cloud_scored; wof_revealed_indices, wof_winner): the game, the
\* question, the cursor and the total are read, never rebound.
task_globals_kept ==
    UNCHANGED << current_game, current_question, current_question_index, total_questions >>

\* a wake-up of countdown t: one decrement; at zero the expiry
TimerTick(t) ==
    LET left == timers[t].time_left - 1
        expired == left <= 0
        finalize == expired /\ timers[t].kind = "question"
                    /\ current_question.type = "word_cloud" /\ wc_runs
    IN /\ timers[t].live
       /\ timers' = IF expired THEN [timers EXCEPT ![t] = FreeTimer]
                    ELSE [timers EXCEPT ![t].time_left = left]
       /\ question_timer' = IF expired /\ question_timer = t THEN DoneTask
                            ELSE question_timer
       /\ word_cloud_scored' = IF finalize THEN TRUE ELSE word_cloud_scored
       /\ wc_done' = (wc_done \/ (finalize /\ wc_reveals))
       /\ answers' = IF finalize /\ wc_reveals THEN wc_scored_answers(answers) ELSE answers
       /\ last' = [op |-> IF timers[t].stale THEN "stale_timer_tick" ELSE "timer_tick",
                   conn |-> 0, qid |-> current_question.id]
       /\ outbox' = ToBoth("timer_update", t, left)
                    \o (IF expired THEN << ToAdmins("time_expired", t, 0) >> ELSE <<>>)
                    \o (IF finalize THEN wc_messages(answers, t, FALSE) ELSE <<>>)
       /\ task_globals_kept
       /\ UNCHANGED << questions, games, question_start_time,
                       wof_revealed_indices, wof_reveal_task, wof_winner,
                       wof_tile_duration, engines, pstate, pname,
                       participant_connections >>

(***************************************************************************)
(* Reveal engine (wof_phrase_reveal_engine, broadcast_wof_state).          *)
(***************************************************************************)
\* the positions the engine may pick from; none when the scan itself fails
hidden_indices(phrase, mask) ==
    {i \in 1..Len(mask) : i <= Len(phrase) /\ ~mask[i] /\ isalpha(phrase[i])}

\* phrase[idx] of the scan is out of range at a hidden position past the phrase
scan_fails(phrase, mask) == \E i \in 1..Len(mask) : ~mask[i] /\ i > Len(phrase)

\* every position holding the selected letter, in either case
letter_positions(phrase, sel) ==
    {i \in 1..Len(phrase) : upper(phrase[i]) = upper(phrase[sel])}

\* a reveal loop that shows the selected letter alone
reveal_selected_only(phrase, mask, sel) ==
    [i \in 1..Len(mask) |-> i \in letter_positions(phrase, sel)]

\* the mask after the reveal loop; an assignment past the end of the mask
\* raises with the earlier positions already set
reveal(phrase, mask, sel) ==
    LET pos == letter_positions(phrase, sel)
        stop == IF \E i \in pos : i > Len(mask)
                THEN CHOOSE i \in pos : i > Len(mask) /\ \A j \in pos : j > Len(mask) => i <= j
                ELSE Len(phrase) + 1
    IN [i \in 1..Len(mask) |-> mask[i] \/ (i \in pos /\ i < stop)]

reveal_fails(phrase, mask, sel) == \E i \in letter_positions(phrase, sel) : i > Len(mask)

wof_board(phrase, maskOpt) ==
    IF maskOpt = <<>> THEN [ok |-> TRUE, words |-> <<>>]
    ELSE mask_words(split(phrase), phrase, maskOpt[1], 1)

\* What one pass of the engine's loop does before it sleeps again or ends.
\* sel is the random choice, used only when a letter is hidden.
\* Result: the mask, the messages, and whether the task sleeps (lives on).
engine_pass(e, phrase, maskOpt, sel) ==
    IF maskOpt = <<>> THEN [mask |-> maskOpt, out |-> <<>>, live |-> FALSE]
    ELSE LET mask == maskOpt[1] IN
    IF all_revealed(mask) THEN [mask |-> maskOpt, out |-> <<>>, live |-> FALSE]
    ELSE IF scan_fails(phrase, mask) THEN [mask |-> maskOpt, out |-> <<>>, live |-> FALSE]
    ELSE IF hidden_indices(phrase, mask) = {}
         THEN [mask |-> maskOpt, live |-> FALSE,
               out |-> IF wof_board(phrase, maskOpt).ok
                       THEN << WofUpdate(e, wof_board(phrase, maskOpt).words, TRUE) >>
                       ELSE <<>>]
    ELSE LET new == reveal(phrase, mask, sel)
             board == wof_board(phrase, <<new>>)
         IN IF reveal_fails(phrase, mask, sel) \/ ~board.ok
            THEN [mask |-> <<new>>, out |-> <<>>, live |-> FALSE]
            ELSE IF all_revealed(new)
                 THEN [mask |-> <<new>>, live |-> FALSE,
                       out |-> << WofUpdate(e, board.words, FALSE),
                                  WofUpdate(e, board.words, TRUE) >>]
                 ELSE [mask |-> <<new>>, live |-> TRUE,
                       out |-> << WofUpdate(e, board.words, FALSE) >>]

\* the choices random.choice has in a pass (0 when the pass picks nothing)
engine_choices(phrase, maskOpt) ==
    IF maskOpt = <<>> THEN {0}
    ELSE IF all_revealed(maskOpt[1]) \/ scan_fails(phrase, maskOpt[1])
            \/ hidden_indices(phrase, maskOpt[1]) = {}
         THEN {0}
         ELSE hidden_indices(phrase, maskOpt[1])

\* a wake-up of engine e after its sleep
EngineStep(e) ==
    /\ engines[e].live
    /\ \E sel \in engine_choices(engines[e].phrase, wof_revealed_indices) :
         LET r == engine_pass(e, engines[e].phrase, wof_revealed_indices, sel)
         IN /\ wof_revealed_indices' = r.mask
            /\ engines' = IF r.live THEN engines ELSE [engines EXCEPT ![e] = FreeEngine]
            /\ wof_reveal_task' = IF ~r.live /\ wof_reveal_task = e THEN DoneTask
                                  ELSE wof_reveal_task
            /\ outbox' = r.out
    /\ last' = [op |-> IF engines[e].stale THEN "stale_engine_step" ELSE "engine_step",
                conn |-> 0, qid |-> current_question.id]
    /\ task_globals_kept
    /\ UNCHANGED << wc_done, questions, games, answers, question_timer,
                    question_start_time, wof_winner, wof_tile_duration,
                    word_cloud_scored, timers, pstate, pname,
                    participant_connections >>

(***************************************************************************)
(* Periodic status task (send_admin_status_updates): one round of its      *)
(* loop, which reads the session and tells the moderators.                 *)
(***************************************************************************)
SendAdminStatusUpdate ==
    /\ last' = Event("status_update", 0, current_question.id)
    /\ outbox' = << ToAdmins("status_update", 0, Cardinality(participant_connections)) >>
    /\ task_globals_kept
    /\ UNCHANGED << wc_done, questions, games, answers, question_timer,
                    question_start_time, wof_revealed_indices, wof_reveal_task,
                    wof_winner, wof_tile_duration, word_cloud_scored, timers, engines,
                    pstate, pname, participant_connections >>

(***************************************************************************)
(* Moderator: start_wof_countdown.                                         *)
(***************************************************************************)
unique_letters(phrase) ==
    Cardinality({upper(phrase[i]) : i \in {j \in 1..Len(phrase) : isalpha(phrase[j])}})

StartWofCountdown ==
    IF current_question.type # "wheel_of_fortune"
    THEN /\ last' = Event("start_wof_countdown_refused", 0, current_question.id)
         /\ outbox' = <<>>
         /\ UNCHANGED << wc_done, questions, games, answers, current_game, current_question,
                         current_question_index, total_questions, question_timer,
                         question_start_time, wof_revealed_indices, wof_reveal_task,
                         wof_winner, wof_tile_duration, word_cloud_scored, timers,
                         engines, pstate, pname, participant_connections >>
    ELSE LET phrase == current_question.correct_answer
             timer_duration == unique_letters(phrase) * wof_tile_duration
             e == FreeSlot(engines)
             t == FreeSlot(timers)
             first == wof_board(phrase, wof_revealed_indices)
         IN /\ HasFreeSlot(engines)
            /\ HasFreeSlot(timers)
            /\ \E sel \in engine_choices(phrase, wof_revealed_indices) :
                 LET r == engine_pass(e, phrase, wof_revealed_indices, sel)
                 IN /\ wof_revealed_indices' = r.mask
                    /\ engines' = IF r.live
                                  THEN [engines EXCEPT ![e] = [live |-> TRUE,
                                            phrase |-> phrase, stale |-> FALSE]]
                                  ELSE engines
                    \* the handle is assigned whether or not one is already held
                    /\ wof_reveal_task' = IF r.live THEN e ELSE DoneTask
                    /\ outbox' = << WofUpdate(0, first.words, FALSE) >>
                                 \o ToBoth("wof_countdown_started", 0, timer_duration)
                                 \o r.out
                                 \o ToBoth("timer_update", t, timer_duration)
                                 \o (IF timer_duration = 0
                                     THEN << ToAdmins("time_expired", t, 0) >> ELSE <<>>)
            /\ timers' = IF timer_duration > 0
                         THEN [timers EXCEPT ![t] = [live |-> TRUE, kind |-> "wof",
                                   time_left |-> timer_duration, stale |-> FALSE,
                                   ended |-> FALSE]]
                         ELSE timers
            /\ question_timer' = IF timer_duration > 0 THEN t ELSE DoneTask
            /\ last' = Event("start_wof_countdown", 0, current_question.id)
            /\ UNCHANGED << wc_done, questions, games, answers, current_game, current_question,
                            current_question_index, total_questions,
                            question_start_time, wof_winner, wof_tile_duration,
                            word_cloud_scored, pstate, pname, participant_connections >>

(***************************************************************************)
(* Moderator: question management and settings.                            *)
(***************************************************************************)
next_id(qs) == IF qs = <<>> THEN 1 ELSE qs[Len(qs)].id + 1

\* a type test that lets every type through
unknown_type_never(qd) == FALSE

\* qd["type"] not in ALLOWED_QUESTION_TYPES
unknown_type(qd) == qd.type \notin ALLOWED_QUESTION_TYPES

AddQuestion(qd) ==
    /\ Len(questions) < MaxQuestions
    /\ next_id(questions) <= MaxQuestions
    /\ IF unknown_type(qd)
       THEN /\ questions' = questions
            /\ outbox' = << Msg("question_add_error", "admin", 0, 0, 0) >>
       ELSE /\ questions' = Append(questions, Row(next_id(questions), qd))
            /\ outbox' = << Msg("question_added", "admin", 0, 0, 0) >>
    /\ last' = [op |-> "add_question", conn |-> 0, qid |-> 0, type |-> qd.type]
    /\ UNCHANGED << wc_done, games, answers, current_game, current_question,
                    current_question_index, total_questions, question_timer,
                    question_start_time, wof_revealed_indices, wof_reveal_task,
                    wof_winner, wof_tile_duration, word_cloud_scored, timers, engines,
                    pstate, pname, participant_connections >>

\* idx is 0-based into the rows in id order; the Question object the session
\* holds is not the row
EditQuestion(idx, qd) ==
    /\ IF unknown_type(qd)
       THEN /\ questions' = questions
            /\ outbox' = << Msg("question_edit_error", "admin", 0, 0, 0) >>
       ELSE IF 0 <= idx /\ idx < Len(questions)
       THEN /\ questions' = [questions EXCEPT ![idx + 1].type = qd.type,
                                               ![idx + 1].correct_answer = qd.correct_answer]
            /\ outbox' = << Msg("question_updated", "admin", 0, 0, 0) >>
       ELSE /\ questions' = questions
            /\ outbox' = <<>>
    /\ last' = [op |-> "edit_question", conn |-> 0, qid |-> 0, type |-> qd.type]
    /\ UNCHANGED << wc_done, games, answers, current_game, current_question,
                    current_question_index, total_questions, question_timer,
                    question_start_time, wof_revealed_indices, wof_reveal_task,
                    wof_winner, wof_tile_duration, word_cloud_scored, timers, engines,
                    pstate, pname, participant_connections >>

\* reorder_questions: the question whose id stands at place idx (0-based) of
\* id_list gets order idx; ids without a row are passed over
ReorderQuestions(id_list) ==
    LET place(qid) == CHOOSE p \in 1..Len(id_list) :
                         /\ id_list[p] = qid
                         /\ \A r \in (p + 1)..Len(id_list) : id_list[r] # qid
        listed(qid) == \E p \in 1..Len(id_list) : id_list[p] = qid
    IN /\ IF id_list # <<>>
          THEN /\ questions' = [i \in 1..Len(questions) |->
                                   IF listed(questions[i].id)
                                   THEN [questions[i] EXCEPT !.order = place(questions[i].id) - 1]
                                   ELSE questions[i]]
               /\ outbox' = << Msg("questions_reordered", "admin", 0, 0, 0) >>
          ELSE /\ questions' = questions
               /\ outbox' = << Msg("questions_reorder_failed", "admin", 0, 0, 0) >>
       /\ last' = Event("reorder_questions", 0, 0)
       /\ UNCHANGED << wc_done, games, answers, current_game, current_question,
                       current_question_index, total_questions, question_timer,
                       question_start_time, wof_revealed_indices, wof_reveal_task,
                       wof_winner, wof_tile_duration, word_cloud_scored, timers, engines,
                       pstate, pname, participant_connections >>

\* idx is 0-based into the rows in id order
DeleteQuestion(idx) ==
    /\ IF 0 <= idx /\ idx < Len(questions)
       THEN /\ questions' = SubSeq(questions, 1, idx) \o SubSeq(questions, idx + 2, Len(questions))
            /\ outbox' = << Msg("question_deleted", "admin", 0, 0, 0) >>
       ELSE /\ questions' = questions
            /\ outbox' = <<>>
    /\ last' = Event("delete_question", 0, 0)
    /\ UNCHANGED << wc_done, games, answers, current_game, current_question,
                    current_question_index, total_questions, question_timer,
                    question_start_time, wof_revealed_indices, wof_reveal_task,
                    wof_winner, wof_tile_duration, word_cloud_scored, timers, engines,
                    pstate, pname, participant_connections >>

\* save_settings naming a database file.  bank is what the file holds; ok is
\* whether switch_database could open it.  The file is taken to hold no games
\* and no answers.
SwitchDatabase(bank, ok) ==
    LET active == is_active_game
        ended == IF active
                 THEN << ToAdmins("quiz_ended", 0, 0), ToParticipants("quiz_ended", 0, 0) >>
                 ELSE <<>>
    IN \* end_quiz first, when a quiz is active
       /\ timers' = IF active THEN MarkEnded(CancelTimer(timers, question_timer)) ELSE timers
       /\ IF ok
          THEN \* the globals are reset; no task is cancelled here
               /\ questions' = bank
               /\ games' = <<>>
               /\ answers' = <<>>
               /\ current_game' = 0
               /\ current_question' = NoQuestion
               /\ current_question_index' = 0
               /\ total_questions' = Len(bank)
               /\ question_timer' = 0
               /\ question_start_time' = None
               /\ word_cloud_scored' = FALSE
               /\ wof_revealed_indices' = <<>>
               /\ wof_reveal_task' = 0
               /\ wof_winner' = NoName
               /\ outbox' = ended \o << Msg("database_switched", "admin", 0, 0, Len(bank)),
                                        Msg("settings_saved", "admin", 0, 0, 0) >>
          ELSE /\ games' = IF active THEN [games EXCEPT ![current_game] = "finished"]
                           ELSE games
               /\ current_game' = IF active THEN 0 ELSE current_game
               /\ current_question' = IF active THEN NoQuestion ELSE current_question
               /\ question_timer' = IF active THEN 0 ELSE question_timer
               /\ outbox' = ended \o << Msg("settings_error", "admin", 0, 0, 0) >>
               /\ UNCHANGED << questions, answers, current_question_index,
                               total_questions, question_start_time, word_cloud_scored,
                               wof_revealed_indices, wof_reveal_task, wof_winner >>
       /\ last' = Event(IF ok THEN "database_switched" ELSE "database_switch_failed", 0, 0)
       /\ UNCHANGED << wc_done, wof_tile_duration, engines, pstate, pname, participant_connections >>

\* save_settings carrying wof_tile_duration only
SaveTileDuration(new_duration) ==
    /\ wof_tile_duration' = new_duration
    /\ last' = Event("save_settings", 0, 0)
    /\ outbox' = << Msg("settings_saved", "admin", 0, 0, 0) >>
    /\ UNCHANGED << wc_done, questions, games, answers, current_game, current_question,
                    current_question_index, total_questions, question_timer,
                    question_start_time, wof_revealed_indices, wof_reveal_task,
                    wof_winner, word_cloud_scored, timers, engines, pstate, pname,
                    participant_connections >>

(***************************************************************************)
(* Moderator: reveal_answer.                                               *)
(***************************************************************************)
\* a reveal that goes ahead whatever is current
reveal_refused_never(cq) == FALSE

\* the handler's first test: no current question
reveal_refused(cq) == cq = NoQuestion

\* the event a reveal leaves: a reveal that follows a reveal is told apart
reveal_event(qid) ==
    Event(IF last.op \in {"reveal_answer", "reveal_again"} /\ last.qid = qid
          THEN "reveal_again" ELSE "reveal_answer", 0, qid)

RevealAnswer ==
    LET cq == current_question
        revealed == ToBoth("answer_revealed", 0, cq.id)
                    \o << Msg("reveal_confirmed", "admin", 0, 0, 0) >>
    IN /\ IF reveal_refused(cq)
          THEN /\ outbox' = << Msg("reveal_error", "admin", 0, 0, 0) >>
               /\ last' = Event("reveal_refused", 0, 0)
               /\ UNCHANGED << answers, word_cloud_scored, wc_done >>
          ELSE IF cq.type = "word_cloud"
          THEN /\ word_cloud_scored' = TRUE
               /\ wc_done' = (wc_done \/ wc_reveals)
               /\ answers' = IF wc_reveals THEN wc_scored_answers(answers) ELSE answers
               /\ outbox' = wc_messages(answers, 0, TRUE)
               /\ last' = reveal_event(cq.id)
          ELSE IF cq.type = "fill_in_the_blank"
          THEN /\ answers' = compute_top10_proportional_scores(
                                 answers, cq.id, current_game, cq.correct_answer)
               /\ outbox' = revealed
               /\ last' = reveal_event(cq.id)
               /\ UNCHANGED << word_cloud_scored, wc_done >>
          ELSE /\ outbox' = revealed
               /\ last' = reveal_event(cq.id)
               /\ UNCHANGED << answers, word_cloud_scored, wc_done >>
       /\ UNCHANGED << questions, games, current_game, current_question,
                       current_question_index, total_questions, question_timer,
                       question_start_time, wof_revealed_indices, wof_reveal_task,
                       wof_winner, wof_tile_duration, timers, engines, pstate, pname,
                       participant_connections >>

\* The call of cluster_word_cloud_answers that a finalization makes on the
\* stored answers, the embedding model finding the pairs in similar alike.
ClusterWordCloud(similar) ==
    /\ current_question.type = "word_cloud"
    /\ current_game # 0
    /\ last' = [op |-> "cluster", conn |-> 0, qid |-> current_question.id,
                answers |-> cloud_pairs(answers), similar |-> similar,
                cluster_map |-> cluster_word_cloud_answers(cloud_pairs(answers), similar)]
    /\ outbox' = <<>>
    /\ UNCHANGED << wc_done, questions, games, answers, current_game, current_question,
                    current_question_index, total_questions, question_timer,
                    question_start_time, wof_revealed_indices, wof_reveal_task,
                    wof_winner, wof_tile_duration, word_cloud_scored, timers, engines,
                    pstate, pname, participant_connections >>

(***************************************************************************)
(* ConnectionManager.broadcast, on the participants' registry.             *)
(***************************************************************************)
\* an except branch that leaves the registry alone
on_send_failure_kept(active, c) == active

\* the except branch: the entry is deleted if it is still there
on_send_failure(active, c) == active \ {c}

\* the registry's connections in the order the loop visits them
RECURSIVE in_order(_)
in_order(active) ==
    IF active = {} THEN <<>>
    ELSE LET c == CHOOSE x \in active : \A y \in active : x <= y
         IN <<c>> \o in_order(active \ {c})

\* the loop over the copy taken at the start: todo is what is left of the
\* copy, failing the connections whose send_json raises
RECURSIVE broadcast_loop(_, _, _, _, _)
broadcast_loop(todo, active, sent, exclude_connections, failing) ==
    IF todo = <<>> THEN [sent |-> sent, active |-> active, raised |-> FALSE]
    ELSE LET c == Head(todo)
         IN IF c \in exclude_connections
            THEN broadcast_loop(Tail(todo), active, sent, exclude_connections, failing)
            ELSE IF c \in failing
            THEN broadcast_loop(Tail(todo), on_send_failure(active, c), sent,
                                exclude_connections, failing)
            ELSE broadcast_loop(Tail(todo), active, Append(sent, c),
                                exclude_connections, failing)

broadcast(active, exclude_connections, failing) ==
    broadcast_loop(in_order(active), active, <<>>, exclude_connections, failing)

\* One call of participant_manager.broadcast(message, exclude_connections)
\* during which send_json raises for the connections in failing.
Broadcast(exclude_connections, failing) ==
    LET r == broadcast(participant_connections, exclude_connections, failing)
    IN /\ participant_connections' = r.active
       /\ outbox' = [i \in 1..Len(r.sent) |-> Msg("message", "participant", r.sent[i], 0, 0)]
       /\ last' = [op |-> IF r.raised THEN "broadcast_raised" ELSE "broadcast",
                   conn |-> 0, qid |-> 0,
                   exclude_connections |-> exclude_connections, failing |-> failing]
       /\ UNCHANGED << wc_done, questions, games, answers, current_game, current_question,
                       current_question_index, total_questions, question_timer,
                       question_start_time, wof_revealed_indices, wof_reveal_task,
                       wof_winner, wof_tile_duration, word_cloud_scored, timers, engines,
                       pstate, pname >>

(***************************************************************************)
(* Participants (participant_websocket).                                   *)
(***************************************************************************)
Connect(c) ==
    /\ pstate[c] = "new"
    /\ pstate' = [pstate EXCEPT ![c] = "awaiting_join"]
    /\ participant_connections' = participant_connections \cup {c}
    /\ last' = Event("connect", c, 0)
    /\ outbox' = <<>>
    /\ UNCHANGED << wc_done, questions, games, answers, current_game, current_question,
                    current_question_index, total_questions, question_timer,
                    question_start_time, wof_revealed_indices, wof_reveal_task,
                    wof_winner, wof_tile_duration, word_cloud_scored, timers, engines,
                    pname >>

\* websocket.close(code, reason): the close frame sent to connection c
Close(c, code, reason) ==
    [type |-> "close", to |-> "participant", conn |-> c, src |-> 0, val |-> code,
     body |-> reason]

\* the first message: its type and its name field
FirstMessage(c, type, name) ==
    /\ pstate[c] = "awaiting_join"
    /\ IF type # "join" \/ strip(name) = <<>>
       THEN \* return: the registry entry stays
            /\ pstate' = [pstate EXCEPT ![c] = "ended"]
            /\ pname' = pname
            \* close(code=4000, reason=...) is sent for a message that is not a
            \* join; for an empty name the call is close(code=4000, result=...),
            \* which raises TypeError into the except branch: the handler returns
            \* and the transport drops the socket with no frame of the handler's
            /\ outbox' = IF type # "join"
                         THEN << Close(c, 4000, <<"Expected join message">>) >>
                         ELSE <<>>
            /\ last' = Event("join_refused", c, 0)
       ELSE /\ pstate' = [pstate EXCEPT ![c] = "joined"]
            /\ pname' = [pname EXCEPT ![c] = strip(name)]
            /\ outbox' = IF is_active_game
                         THEN << Msg("quiz_started", "participant", c, 0, total_questions) >>
                              \o (IF current_question # NoQuestion
                                  THEN << Msg("question", "participant", c, 0,
                                              current_question.id) >>
                                  ELSE <<>>)
                         ELSE <<>>
            /\ last' = Event("join", c, 0)
    /\ UNCHANGED << wc_done, questions, games, answers, current_game, current_question,
                    current_question_index, total_questions, question_timer,
                    question_start_time, wof_revealed_indices, wof_reveal_task,
                    wof_winner, wof_tile_duration, word_cloud_scored, timers, engines,
                    participant_connections >>

\* the peer goes away while the handler waits in receive_json
Disconnect(c) ==
    /\ pstate[c] \in {"awaiting_join", "joined"}
    /\ pstate' = [pstate EXCEPT ![c] = "ended"]
    /\ pname' = [pname EXCEPT ![c] = NoName]
    /\ participant_connections' =
           IF pstate[c] = "joined" THEN participant_connections \ {c}
           ELSE participant_connections
    /\ last' = Event("disconnect", c, 0)
    /\ outbox' = <<>>
    /\ UNCHANGED << wc_done, questions, games, answers, current_game, current_question,
                    current_question_index, total_questions, question_timer,
                    question_start_time, wof_revealed_indices, wof_reveal_task,
                    wof_winner, wof_tile_duration, word_cloud_scored, timers, engines >>

\* .first() of the rows of this user, question and game; 0 when there is none.
\* Without a game the filter is None and no row matches.
find_existing(rows, user, qid, game) ==
    LET hits == {i \in 1..Len(rows) : /\ rows[i].user_id = user
                                      /\ rows[i].question_id = qid
                                      /\ rows[i].game_id = game}
    IN IF game = 0 \/ hits = {} THEN 0
       ELSE CHOOSE i \in hits : \A j \in hits : i <= j

NewAnswer(user, qid, game, content, is_correct, score) ==
    [user_id |-> user, question_id |-> qid, game_id |-> game, content |-> content,
     is_correct |-> is_correct, score |-> score, retry_count |-> 1]

Resubmit(row, content, is_correct, score) ==
    [row EXCEPT !.content = content, !.is_correct = is_correct, !.score = score,
                !.retry_count = row.retry_count + 1]

\* a wheel-of-fortune branch without its guard
post_winner_guard_absent(name, winner) == FALSE

\* a winner assignment that does not look at the winner already set
winner_after_unguarded(winner, name, is_correct) ==
    IF is_correct THEN name ELSE winner

\* the guard at the top of the wheel-of-fortune branch
post_winner_guard(name, winner) == winner # NoName /\ name = winner

\* the winner after a guess
winner_after(winner, name, is_correct) ==
    IF is_correct /\ winner = NoName THEN name ELSE winner

\* the wheel-of-fortune branch writes its own row
wof_rows(rows, existing, new, content, is_correct, score) ==
    IF existing # 0 THEN [rows EXCEPT ![existing] = Resubmit(rows[existing], content, is_correct, score)]
    ELSE Append(rows, new)

\* the common tail: update the row found before the branch, or insert
stored_rows(rows, existing, is_word_cloud, new, content, is_correct, score) ==
    IF existing # 0 /\ (~rows[existing].is_correct \/ is_word_cloud)
    THEN [rows EXCEPT ![existing] = Resubmit(rows[existing], content, is_correct, score)]
    ELSE Append(rows, new)

RECURSIVE total_score_of(_, _, _)
total_score_of(rows, user, game) ==
    IF rows = <<>> THEN 0
    ELSE (IF Head(rows).user_id = user /\ Head(rows).game_id = game
          THEN Head(rows).score ELSE 0) + total_score_of(Tail(rows), user, game)

submitted_count(rows) ==
    Cardinality({i \in 1..Len(rows) : rows[i].question_id = current_question.id
                                      /\ rows[i].game_id = current_game})

\* One "answer" message of connection c: question_id, answer text, the seconds
\* elapsed since the question was presented, and the similarity the embedding
\* model returns for the text.
Answer(c, qid, text, elapsed, sim) ==
    LET cq == current_question
        name == pname[c]
        existing == find_existing(answers, c, qid, current_game)
        is_word_cloud == cq.type = "word_cloud"
        is_wof == cq.type = "wheel_of_fortune"
        here == cq # NoQuestion /\ qid = cq.id
        wof == is_wof /\ here
        \* wheel-of-fortune branch
        guess_ok == normalise(text) = normalise(cq.correct_answer)
        wof_score == IF guess_ok
                     THEN (IF question_start_time # None THEN wof_seconds_remaining(elapsed)
                           ELSE MaxScore)
                     ELSE 0
        rows1 == IF wof
                 THEN wof_rows(answers, existing, NewAnswer(c, qid, current_game, text, guess_ok, wof_score),
                               text, guess_ok, wof_score)
                 ELSE answers
        \* scoring by kind
        score == IF ~here \/ is_word_cloud THEN 0
                 ELSE IF cq.type = "fill_in_the_blank"
                      THEN compute_numeric_score(cq.correct_answer, text)
                 ELSE IF cq.type = "pictionary"
                      THEN compute_semantic_score(cq.correct_answer, text, sim)
                 ELSE IF guess_ok /\ question_start_time # None
                      THEN seconds_remaining(elapsed)
                 ELSE 0
        is_correct == IF ~here \/ is_word_cloud THEN FALSE
                      ELSE IF cq.type \in {"fill_in_the_blank", "pictionary"} THEN score > 0
                      ELSE guess_ok
        rows2 == stored_rows(rows1, existing, is_word_cloud,
                             NewAnswer(c, qid, current_game, text, is_correct, score),
                             text, is_correct, score)
        retry == IF existing # 0 THEN rows2[existing].retry_count ELSE 1
        winner == IF wof THEN winner_after(wof_winner, name, guess_ok) ELSE wof_winner
        announce == IF wof /\ guess_ok /\ winner # NoName
                    THEN ToBoth("wof_winner", 0, 0) ELSE <<>>
        finalize == is_word_cloud /\ wc_runs
                    /\ submitted_count(rows2) >= Cardinality(participant_connections)
    IN /\ pstate[c] = "joined"
       /\ IF wof /\ post_winner_guard(name, wof_winner)
          THEN \* return: the handler ends, nothing is written
               /\ pstate' = [pstate EXCEPT ![c] = "ended"]
               /\ pname' = [pname EXCEPT ![c] = NoName]
               /\ outbox' = <<>>
               /\ last' = Event("answer_rejected", c, qid)
               /\ UNCHANGED << wc_done, answers, wof_winner, word_cloud_scored >>
          ELSE IF current_game = 0
          THEN \* game_id is NULL: the commit raises and the handler ends
               /\ pstate' = [pstate EXCEPT ![c] = "ended"]
               /\ pname' = [pname EXCEPT ![c] = NoName]
               /\ outbox' = <<>>
               /\ last' = Event("answer_failed", c, qid)
               /\ UNCHANGED << wc_done, answers, wof_winner, word_cloud_scored >>
          ELSE /\ Len(rows2) <= MaxRows
               /\ \A i \in 1..Len(rows2) : rows2[i].retry_count <= MaxRetry
               /\ pstate' = pstate
               /\ pname' = pname
               /\ wof_winner' = winner
               /\ word_cloud_scored' = (word_cloud_scored \/ finalize)
               /\ wc_done' = (wc_done \/ (finalize /\ wc_reveals))
               /\ answers' = IF finalize /\ wc_reveals THEN wc_scored_answers(rows2) ELSE rows2
               /\ outbox' = announce
                            \o << Feedback(c, 0, IF is_word_cloud THEN FALSE ELSE is_correct,
                                           IF is_word_cloud THEN 0 ELSE score,
                                           total_score_of(rows2, c, current_game), retry),
                                  ToAdmins("answer_received", 0, Len(rows2)) >>
                            \o (IF finalize THEN wc_messages(rows2, 0, FALSE) ELSE <<>>)
               /\ last' = [op |-> "answer", conn |-> c, qid |-> qid,
                           text |-> text, elapsed |-> elapsed]
       /\ UNCHANGED << questions, games, current_game, current_question,
                       current_question_index, total_questions, question_timer,
                       question_start_time, wof_revealed_indices, wof_reveal_task,
                       wof_tile_duration, timers, engines,
                       participant_connections >>

(***************************************************************************)
(* Specifications.  Each is the orchestrator under one kind of session:    *)
(* the database file it starts from, and the messages its clients send.    *)
(***************************************************************************)
QuestionAt(id, type, correct_answer) ==
    [id |-> id, type |-> type, correct_answer |-> correct_answer, order |-> 0]

BankWof ==
    << QuestionAt(1, "wheel_of_fortune", Phrase1), QuestionAt(2, "wheel_of_fortune", Phrase2) >>

Guess1 == <<" ", "a", "B", " ", "A">>     \* Phrase1 up to case and outer blanks

\* the connections opened in the sessions with two participants
TwoConns == {1, 2}

\* Participants answer the question they are shown (question 1 when none is).
ParticipantsSending(conns, texts) ==
    \/ \E c \in conns : Connect(c)
    \/ \E c \in conns, type \in {"join", "answer"}, name \in NameInputs :
          FirstMessage(c, type, name)
    \/ \E c \in conns : Disconnect(c)
    \/ \E c \in conns, text \in texts, elapsed \in ElapsedChoices, sim \in SimChoices :
          Answer(c, IF current_question = NoQuestion THEN 1 ELSE current_question.id,
                 text, elapsed, sim)

(***************************************************************************)
(* SpecWinner: a phrase-reveal quiz, started once per database file, with  *)
(* guessing participants; the board is not started.                        *)
(***************************************************************************)
NextWinner ==
    \/ StartQuiz /\ games = <<>>
    \/ NextQuestion
    \/ \E ok \in BOOLEAN : SwitchDatabase(BankWof, ok)
    \/ ParticipantsSending(TwoConns, {Guess1, Phrase2})

SpecWinner == InitWith(BankWof) /\ [][NextWinner]_vars

(***************************************************************************)
(* SpecCountdown: a phrase-reveal quiz run by the moderator alone, with    *)
(* its countdowns and reveal engines running.                              *)
(***************************************************************************)
NextCountdown ==
    \/ StartQuiz
    \/ NextQuestion
    \/ EndQuiz
    \/ StartWofCountdown
    \/ \E ok \in BOOLEAN : SwitchDatabase(BankWof, ok)
    \/ \E t \in 1..MaxTasks : TimerTick(t)
    \/ \E e \in 1..MaxEngines : EngineStep(e)

SpecCountdown == InitWith(BankWof) /\ [][NextCountdown]_vars

(***************************************************************************)
(* SpecBoard: a phrase-reveal quiz, started once per database file, with   *)
(* the board revealing while one participant guesses.                      *)
(***************************************************************************)
NextBoard ==
    \/ StartQuiz /\ games = <<>>
    \/ NextQuestion
    \/ StartWofCountdown
    \/ \E ok \in BOOLEAN : SwitchDatabase(BankWof, ok)
    \/ \E e \in 1..MaxEngines : EngineStep(e)
    \/ ParticipantsSending({1}, {Guess1})

SpecBoard == InitWith(BankWof) /\ [][NextBoard]_vars

(***************************************************************************)
(* SpecModerator: the moderator alone, over a bank of timed questions      *)
(* that is edited while the quiz runs; no countdown gets to tick.          *)
(***************************************************************************)
BankTimed ==
    << QuestionAt(1, "multiple_choice", <<"B">>), QuestionAt(2, "word_cloud", <<"n", "o", "n", "e">>) >>

\* what the moderator adds or edits in: a known kind and an unknown one
ModeratorInputs ==
    { [type |-> "multiple_choice", correct_answer |-> <<"B">>],
      [type |-> "essay", correct_answer |-> <<>>] }

NextModerator ==
    \/ StartQuiz
    \/ NextQuestion
    \/ EndQuiz
    \/ RevealAnswer
    \/ \E qd \in ModeratorInputs : AddQuestion(qd)
    \/ \E idx \in 0..MaxQuestions, qd \in ModeratorInputs : EditQuestion(idx, qd)
    \/ \E idx \in 0..MaxQuestions : DeleteQuestion(idx)

SpecModerator == InitWith(BankTimed) /\ [][NextModerator]_vars

(***************************************************************************)
(* SpecBroadcast: participants come and go while messages are multicast    *)
(* to them and some of the sends fail.                                     *)
(***************************************************************************)
NextBroadcast ==
    \/ \E c \in TwoConns : Connect(c)
    \/ \E c \in TwoConns, name \in {<<"a">>, <<" ">>} : FirstMessage(c, "join", name)
    \/ \E c \in TwoConns : Disconnect(c)
    \/ \E exclude_connections \in SUBSET TwoConns, failing \in SUBSET TwoConns :
          Broadcast(exclude_connections, failing)

SpecBroadcast == InitWith(<<>>) /\ [][NextBroadcast]_vars

(***************************************************************************)
(* SpecNumeric: a quiz of one numeric question, started once, with a       *)
(* participant who answers the question shown; no reveal.                  *)
(***************************************************************************)
Correct150 == <<"1", "5", "0">>

NumericBanks ==
    { << QuestionAt(1, "fill_in_the_blank", Correct150) >>,
      << QuestionAt(1, "fill_in_the_blank", <<"a", "b", "c">>) >> }

\* the correct value, values 2, 5, 50 and 60 away from it, a number word and
\* a text without a number
NumericTexts ==
    { Correct150, <<"1", "5", "2">>, <<"1", "5", "5">>, <<"1", "0", "0">>, <<"9", "0">>,
      <<"t", "e", "n">>, <<"a", "b", "c">> }

ParticipantsAnswering(conns, texts) ==
    \/ \E c \in conns : Connect(c)
    \/ \E c \in conns : FirstMessage(c, "join", <<"a">>)
    \/ \E c \in conns, text \in texts, elapsed \in ElapsedChoices, sim \in SimChoices :
          /\ current_question # NoQuestion
          /\ Answer(c, current_question.id, text, elapsed, sim)

NextNumeric ==
    \/ StartQuiz /\ games = <<>>
    \/ NextQuestion
    \/ ParticipantsAnswering({1}, NumericTexts)

SpecNumeric == (\E bank \in NumericBanks : InitWith(bank)) /\ [][NextNumeric]_vars

(***************************************************************************)
(* SpecReveal: the numeric question with a participant whose answers may   *)
(* arrive before the question is presented, and a moderator who reveals.   *)
(***************************************************************************)
RevealTexts == { Correct150, <<"1", "5", "2">>, <<"1", "0", "0">> }

NextReveal ==
    \/ StartQuiz /\ games = <<>>
    \/ NextQuestion
    \/ RevealAnswer
    \/ ParticipantsSending({1}, RevealTexts)

SpecReveal ==
    InitWith(<< QuestionAt(1, "fill_in_the_blank", Correct150) >>) /\ [][NextReveal]_vars

(***************************************************************************)
(* SpecFinalize: the numeric question is on show and the answers table     *)
(* holds what up to MaxFinalRows participants have submitted for it; the   *)
(* moderator reveals, any number of times.                                 *)
(***************************************************************************)
MaxFinalRows == 13

\* six values off the correct one by 2, 5, 4, 1, 10 and 20, two more off by 20
\* and 2, the correct value and a text without a number
FinalValues ==
    << <<"1", "5", "2">>, <<"1", "5", "5">>, <<"1", "5", "4">>, <<"1", "4", "9">>,
       <<"1", "6", "0">>, <<"1", "7", "0">>, <<"1", "3", "0">>, <<"1", "4", "8">>,
       Correct150, <<"a", "b", "c">> >>

\* n first submissions of n participants, scored as the answer handler scores
\* them: the texts are FinalValues read from offset in steps of step
FinalTable(n, offset, step) ==
    [i \in 1..n |->
        LET text == FinalValues[((offset + (i - 1) * step) % Len(FinalValues)) + 1]
            score == compute_numeric_score(Correct150, text)
        IN NewAnswer(i, 1, 1, text, score > 0, score)]

FinalTables ==
    { FinalTable(n, offset, step) :
        n \in 0..MaxFinalRows, offset \in 0..(Len(FinalValues) - 1), step \in {0, 1, 3} }

\* the state start_quiz and next_question leave, with rows in the table
Presented(question, rows) ==
    /\ questions = << question >>
    /\ games = << "active" >>
    /\ answers = rows
    /\ current_game = 1
    /\ current_question = Held(question)
    /\ current_question_index = 1
    /\ total_questions = 1
    /\ question_timer = 1
    /\ question_start_time = "set"
    /\ wof_revealed_indices = <<>>
    /\ wof_reveal_task = 0
    /\ wof_winner = NoName
    /\ wof_tile_duration = 2
    /\ word_cloud_scored = FALSE
    /\ timers = [t \in 1..MaxTasks |->
                    IF t = 1
                    THEN [live |-> TRUE, kind |-> "question", time_left |-> DefaultDuration,
                          stale |-> FALSE, ended |-> FALSE]
                    ELSE FreeTimer]
    /\ engines = [e \in 1..MaxEngines |-> FreeEngine]
    /\ pstate = [c \in Conns |-> "new"]
    /\ pname = [c \in Conns |-> NoName]
    /\ participant_connections = {}
    /\ last = Event("next_question", 0, question.id)
    /\ outbox = << Msg("question_pushed", "admins", 0, 0, question.id),
                   Msg("question", "participants", 0, 0, question.id),
                   Msg("timer_update", "participants", 0, 1, DefaultDuration),
                   Msg("timer_update", "admins", 0, 1, DefaultDuration) >>
    /\ wc_done = FALSE

NextFinalize == RevealAnswer

SpecFinalize ==
    /\ \E rows \in FinalTables :
          Presented(QuestionAt(1, "fill_in_the_blank", Correct150), rows)
    /\ [][NextFinalize]_vars

(***************************************************************************)
(* SpecChoice: a quiz of one multiple-choice question, started once, with  *)
(* a participant who answers the question shown at various moments.        *)
(***************************************************************************)
BankChoice == << QuestionAt(1, "multiple_choice", <<" ", "B">>) >>

\* the canonical answer up to case and blanks, another answer, an empty one
ChoiceTexts == { <<"b", " ">>, <<"b", "b">>, <<" ">> }

\* at once, after 3.7 s, 29.5 s and 45 s, in tenths
ChoiceElapsed == {0, 37, 295, 450}

NextChoice ==
    \/ StartQuiz /\ games = <<>>
    \/ NextQuestion
    \/ Connect(1)
    \/ FirstMessage(1, "join", <<"a">>)
    \/ \E text \in ChoiceTexts, elapsed \in ChoiceElapsed, sim \in SimChoices :
          /\ current_question # NoQuestion
          /\ Answer(1, current_question.id, text, elapsed, sim)

SpecChoice == InitWith(BankChoice) /\ [][NextChoice]_vars

(***************************************************************************)
(* SpecCloud: a quiz of one word-cloud question, started once, with        *)
(* participants who come, answer the question shown, and go.               *)
(***************************************************************************)
BankCloud == << QuestionAt(1, "word_cloud", <<"n", "o", "n", "e">>) >>

CloudTexts == { <<"o", "n", "e">> }

NextCloud ==
    \/ StartQuiz /\ games = <<>>
    \/ NextQuestion
    \/ \E c \in Conns : Connect(c)
    \/ \E c \in Conns : FirstMessage(c, "join", <<"a">>)
    \/ \E c \in Conns : Disconnect(c)
    \/ \E c \in Conns, text \in CloudTexts, elapsed \in ElapsedChoices, sim \in SimChoices :
          /\ current_question # NoQuestion
          /\ Answer(c, current_question.id, text, elapsed, sim)

SpecCloud == InitWith(BankCloud) /\ [][NextCloud]_vars

(***************************************************************************)
(* SpecCluster: the word-cloud question is on show, the answers table      *)
(* holds the first submissions of up to MaxCloudRows participants, and     *)
(* the stored answers are clustered under every similarity relation.       *)
(***************************************************************************)
MaxCloudRows == 4

Eggnog == <<"e", "n">>
EggnogLatte == <<"e", "n", " ", "t", "e">>
HotChocolate == <<"c", "o">>

\* the three answers, one of them also with blanks around it, and a blank one
ClusterTexts == { Eggnog, EggnogLatte, HotChocolate, <<" ", "e", "n", " ">>, <<" ">> }

RECURSIVE CloudTables(_)
CloudTables(n) ==
    IF n = 0 THEN { <<>> }
    ELSE CloudTables(n - 1)
         \cup { Append(rows, NewAnswer(Len(rows) + 1, 1, 1, text, FALSE, 0)) :
                   rows \in {r \in CloudTables(n - 1) : Len(r) = n - 1}, text \in ClusterTexts }

\* what the embedding model may find alike
SimilarityRelations ==
    SUBSET { {Eggnog, EggnogLatte}, {Eggnog, HotChocolate}, {EggnogLatte, HotChocolate} }

NextCluster == \E similar \in SimilarityRelations : ClusterWordCloud(similar)

SpecCluster ==
    /\ \E rows \in CloudTables(MaxCloudRows) : Presented(BankCloud[1], rows)
    /\ [][NextCluster]_vars

(***************************************************************************)
(* SpecBare: a quiz, started once, whose first phrase has no letter or     *)
(* digit and whose second one has letters, run by the moderator alone.     *)
(***************************************************************************)
PhraseBare == <<"!", " ", "!">>

BankBare ==
    << QuestionAt(1, "wheel_of_fortune", PhraseBare), QuestionAt(2, "wheel_of_fortune", Phrase1) >>

NextBare ==
    \/ StartQuiz /\ games = <<>>
    \/ NextQuestion
    \/ StartWofCountdown
    \/ \E t \in 1..MaxTasks : TimerTick(t)
    \/ \E e \in 1..MaxEngines : EngineStep(e)

SpecBare == InitWith(BankBare) /\ [][NextBare]_vars

(***************************************************************************)
(* SpecTimed: a quiz, started once, of a pictionary question and a         *)
(* multiple-choice one, whose countdowns run down while the moderator      *)
(* advances.                                                               *)
(***************************************************************************)
BankPictionary ==
    << QuestionAt(1, "pictionary", <<"c", "a", "t">>), QuestionAt(2, "multiple_choice", <<"B">>) >>

NextTimed ==
    \/ StartQuiz /\ games = <<>>
    \/ NextQuestion
    \/ \E t \in 1..MaxTasks : TimerTick(t)

SpecTimed == InitWith(BankPictionary) /\ [][NextTimed]_vars

(***************************************************************************)
(* SpecTasks: a quiz, started once, of a word-cloud question and a phrase, *)
(* with the countdowns, the reveal engines and the status task running.    *)
(***************************************************************************)
BankTasks ==
    << QuestionAt(1, "word_cloud", <<"n", "o", "n", "e">>), QuestionAt(2, "wheel_of_fortune", Phrase1) >>

NextTasks ==
    \/ StartQuiz /\ games = <<>>
    \/ NextQuestion
    \/ StartWofCountdown
    \/ \E t \in 1..MaxTasks : TimerTick(t)
    \/ \E e \in 1..MaxEngines : EngineStep(e)
    \/ SendAdminStatusUpdate

SpecTasks == InitWith(BankTasks) /\ [][NextTasks]_vars

(***************************************************************************)
(* SpecReorder: one game over a bank of phrases (no countdown starts by    *)
(* itself) that the moderator reorders, extends and prunes while advancing.*)
(***************************************************************************)
\* the orders the moderator may send: both orders of the first two ids, and none
ReorderInputs == { <<1, 2>>, <<2, 1>>, <<>> }

NextReorder ==
    \/ StartQuiz /\ games = <<>>
    \/ NextQuestion
    \/ \E id_list \in ReorderInputs : ReorderQuestions(id_list)
    \/ AddQuestion([type |-> "wheel_of_fortune", correct_answer |-> Phrase2])
    \/ \E idx \in 0..MaxQuestions : DeleteQuestion(idx)

SpecReorder == InitWith(BankWof) /\ [][NextReorder]_vars

(***************************************************************************)
(* SpecSpaces: a quiz, started once, whose phrases have a leading space,   *)
(* two spaces in a row and a trailing space, run by the moderator alone.   *)
(***************************************************************************)
PhraseLead == <<" ", "a", "b">>
PhraseGap == <<"a", " ", " ", "b">>
PhraseTrail == <<"a", "b", " ">>

BankSpaces ==
    << QuestionAt(1, "wheel_of_fortune", PhraseTrail),
       QuestionAt(2, "wheel_of_fortune", PhraseGap),
       QuestionAt(3, "wheel_of_fortune", PhraseLead) >>

NextSpaces ==
    \/ StartQuiz /\ games = <<>>
    \/ NextQuestion
    \/ StartWofCountdown
    \/ \E t \in 1..MaxTasks : TimerTick(t)
    \/ \E e \in 1..MaxEngines : EngineStep(e)

SpecSpaces == InitWith(BankSpaces) /\ [][NextSpaces]_vars

(***************************************************************************)
(* Properties.                                                             *)
(***************************************************************************)
SameTriple(r1, r2) ==
    /\ r1.user_id = r2.user_id
    /\ r1.question_id = r2.question_id
    /\ r1.game_id = r2.game_id

\* the step just taken handled an "answer" message that was stored
Stored(ev) == ev.op = "answer"

\* the rows of a table written for the submitter of an answer event
RowsOf(rows, ev, game) ==
    {i \in 1..Len(rows) : /\ rows[i].user_id = ev.conn
                          /\ rows[i].question_id = ev.qid
                          /\ rows[i].game_id = game}

Sent(types) == {i \in DOMAIN outbox : outbox[i].type \in types}

\* C1: whatever answers have been submitted, the answers table holds at most
\* one row for each participant, question and game.
C1_OneRowPerTriple ==
    \A i, j \in 1..Len(answers) : SameTriple(answers[i], answers[j]) => i = j

\* C2: every stored submission counts once: a first submission leaves
\* retry_count 1 on what it stores, and a resubmission leaves the row it finds
\* with a retry_count exactly one higher.
C2_RetryCountsSubmissions ==
    [][Stored(last') =>
          LET e == find_existing(answers, last'.conn, last'.qid, current_game)
          IN IF e = 0
             THEN \A i \in RowsOf(answers', last', current_game) :
                     answers'[i].retry_count = 1
             ELSE answers'[e].retry_count = answers[e].retry_count + 1]_vars

\* C3: a countdown that belongs to a question the moderator has advanced
\* past sends no timer_update and no time_expired to anyone.
C3_NoCountdownMessageAfterAdvance ==
    last.op = "stale_timer_tick" => Sent({"timer_update", "time_expired"}) = {}

\* C4: a reveal engine that belongs to a question the moderator has advanced
\* past sends no wof_update and leaves the revealed mask as it is.
C4_NoEngineEffectAfterAdvance ==
    [][last'.op = "stale_engine_step" =>
          /\ \A i \in DOMAIN outbox' : outbox'[i].type # "wof_update"
          /\ wof_revealed_indices' = wof_revealed_indices]_vars

\* C5: once the wheel-of-fortune winner is set, it stays as it is through
\* every step (a correct guess of another participant included) other than an
\* advance to the next question or a reset of the session.
C5_WinnerKept ==
    [][wof_winner # NoName =>
          \/ wof_winner' = wof_winner
          \/ last'.op \in {"next_question", "database_switched"}]_vars

\* a correct guess of someone other than the winner was stored last
C5_witness ==
    /\ Stored(last)
    /\ wof_winner # NoName
    /\ pname[last.conn] # wof_winner
    /\ \E i \in DOMAIN outbox : outbox[i].type = "personal_feedback" /\ outbox[i].body[1] = 1

\* C6: an answer to the current wheel-of-fortune question sent by its winner
\* is rejected: no row is inserted or changed (so no retry_count moves), the
\* winner stays, and nothing is sent back.
C6_WinnerAnswerRejected ==
    [][(/\ last'.op \in {"answer", "answer_rejected", "answer_failed"}
        /\ current_question.type = "wheel_of_fortune"
        /\ last'.qid = current_question.id
        /\ wof_winner # NoName
        /\ pname[last'.conn] = wof_winner)
       => /\ last'.op = "answer_rejected"
          /\ answers' = answers
          /\ wof_winner' = wof_winner
          /\ outbox' = <<>>]_vars

\* the winner has sent a further answer, with their rows in the table
C6_witness ==
    /\ last.op = "answer_rejected"
    /\ wof_winner # NoName
    /\ RowsOf(answers, last, current_game) # {}

\* C7: while a question stays current, a revealed position of the mask never
\* becomes hidden again, whichever of the engines, the moderator's
\* start_wof_countdown and the participants' answers takes the step.
C7_MaskMonotonic ==
    [][(wof_revealed_indices # <<>> /\ last'.op \notin {"next_question", "database_switched"})
       => /\ wof_revealed_indices' # <<>>
          /\ Len(wof_revealed_indices'[1]) = Len(wof_revealed_indices[1])
          /\ \A i \in 1..Len(wof_revealed_indices[1]) :
                wof_revealed_indices[1][i] => wof_revealed_indices'[1][i]]_vars

\* an engine has woken up and revealed the last hidden letter of the phrase,
\* next to the positions revealed before it
C7_witness ==
    /\ last.op = "engine_step"
    /\ current_question.type = "wheel_of_fortune"
    /\ wof_revealed_indices # <<>>
    /\ Len(wof_revealed_indices[1]) = Len(current_question.correct_answer)
    /\ \E i \in 1..Len(wof_revealed_indices[1]) : isalpha(current_question.correct_answer[i])
    /\ all_revealed(wof_revealed_indices[1])
    /\ \E i \in DOMAIN outbox : outbox[i].type = "wof_update"

\* C8: start_quiz takes effect only when idle: once a game has been started
\* and the session not reset since, a start_quiz creates no game, leaves the
\* cursor and clears no answers.
C8_StartOnlyFromIdle ==
    [][(last'.op = "start_quiz" /\ games # <<>>)
       => /\ games' = games
          /\ current_game' = current_game
          /\ current_question_index' = current_question_index
          /\ answers' = answers]_vars

\* C9: the cursor never exceeds the question count that start_quiz recorded.
C9_CursorWithinSnapshot == current_question_index <= total_questions

\* C10: a next_question that does not advance changes nothing of the session
\* state, starts no countdown and sends no question.
C10_RefusedAdvanceIsInert ==
    [][last'.op = "next_question_refused" =>
          /\ UNCHANGED << current_question, current_question_index, question_start_time,
                          question_timer, wof_revealed_indices, wof_reveal_task,
                          wof_winner, word_cloud_scored, timers, engines >>
          /\ \A i \in DOMAIN outbox' :
                outbox'[i].type \notin {"question", "question_pushed", "timer_update"}]_vars

\* the session state of the orchestrator: everything but the tasks' own
\* progress and the record of the last step
session_state ==
    << questions, games, answers, current_game, current_question,
       current_question_index, total_questions, question_timer, question_start_time,
       wof_revealed_indices, wof_reveal_task, wof_winner, wof_tile_duration,
       word_cloud_scored, timers, engines, participant_connections >>

\* C11: a next_question received while no game is active sends an error event
\* (here: any event at all) back to the moderator connection that asked.
C11_RefusedAdvanceAnswered ==
    [][(last'.op = "next_question_refused" /\ ~is_active_game)
       => \E i \in DOMAIN outbox' : outbox'[i].to = "admin"]_vars

\* C12: a reveal_answer received while there is no current question sends
\* reveal_error to the asking moderator connection and nothing else, and
\* leaves the session state and every answer row as they are.
C12_RevealWithoutQuestion ==
    [][(last'.op \in {"reveal_answer", "reveal_again", "reveal_refused"} /\ current_question = NoQuestion)
       => /\ outbox' = << Msg("reveal_error", "admin", 0, 0, 0) >>
          /\ UNCHANGED session_state]_vars

\* a reveal_answer was refused in a session that has run a game
C12_witness ==
    /\ last.op = "reveal_refused"
    /\ games # <<>>
    /\ \E i \in DOMAIN outbox : outbox[i].type = "reveal_error"

\* C14: the word cloud of a question is finalized (word_cloud_revealed sent)
\* at most once while that question is the one shown.
C14_FinalizedOnce ==
    [][(\E i \in DOMAIN outbox' : outbox'[i].type = "word_cloud_revealed") => ~wc_done]_vars

\* C13: end_quiz in an active game marks the game finished and leaves no
\* current question, and no countdown of the game it ended sends a
\* timer_update or a time_expired afterwards.
C13_EndQuizStopsCountdowns ==
    [][/\ (last'.op = "end_quiz" /\ is_active_game)
          => /\ games'[current_game] = "finished"
             /\ current_question' = NoQuestion
       /\ last'.op \in {"timer_tick", "stale_timer_tick"}
          => \A i \in DOMAIN outbox' :
                outbox'[i].type \in {"timer_update", "time_expired"}
                => ~timers[outbox'[i].src].ended]_vars

\* C15: a multicast during which some sends fail reaches every other
\* registered connection that is not excluded, removes the connections whose
\* send failed from the registry, and returns without raising.
C15_BroadcastSurvivesFailures ==
    [][last'.op \in {"broadcast", "broadcast_raised"} =>
          LET targets == participant_connections \ last'.exclude_connections
          IN /\ last'.op = "broadcast"
             /\ {outbox'[i].conn : i \in DOMAIN outbox'} = targets \ last'.failing
             /\ Len(outbox') = Cardinality(targets \ last'.failing)
             /\ participant_connections' = participant_connections \ (targets \cap last'.failing)]_vars

\* a multicast to two registered connections, the first of which failed
C15_witness ==
    /\ last.op = "broadcast"
    /\ last.exclude_connections = {}
    /\ 1 \in last.failing
    /\ 1 \notin participant_connections
    /\ Len(outbox) = 1
    /\ outbox[1].conn = 2

\* the correct answer of the question a row was written for
correct_of(row) ==
    questions[CHOOSE k \in DOMAIN questions : questions[k].id = row.question_id].correct_answer

numeric_rows ==
    {i \in 1..Len(answers) :
        /\ \E k \in DOMAIN questions : questions[k].id = answers[i].question_id
        /\ extract_number_from_text(correct_of(answers[i])) # NoNumber
        /\ extract_number_from_text(answers[i].content) # NoNumber}

distance(i) == diff_of(answers[i], extract_number_from_text(correct_of(answers[i])))

C19_NearerScoresMore ==
    \A i, j \in numeric_rows :
        (answers[i].question_id = answers[j].question_id
         /\ 0 < distance(i) /\ distance(i) < distance(j))
        => answers[i].score > answers[j].score

\* C20: the provisional score of a submission 2 away from the correct value is
\* above 20, that of one 5 away is above 5, and that of one 50 away is below 5.
C20_ScoresAtDistances ==
    \A i \in numeric_rows :
        /\ distance(i) = 2 => answers[i].score > 20
        /\ distance(i) = 5 => answers[i].score > 5
        /\ distance(i) = 50 => answers[i].score < 5

\* the rows, in a table, that a finalization of the question shown looks at
shown_rows(rows) ==
    {i \in question_rows(rows, current_question.id, current_game) :
        extract_number_from_text(rows[i].content) # NoNumber}

\* C16: after the top-10 finalization of a numeric question with k non-exact
\* numeric submissions, every exact submission has score 30, exactly
\* min(10, k) non-exact submissions, the closest ones, have a score in 1..25,
\* the farthest of those has score 1, and every other non-exact one has 0.
C16_TopTenScores ==
    [][(/\ last'.op \in {"reveal_answer", "reveal_again"}
        /\ current_question # NoQuestion
        /\ current_question.type = "fill_in_the_blank"
        /\ extract_number_from_text(current_question.correct_answer) # NoNumber)
       => LET correct_num == extract_number_from_text(current_question.correct_answer)
              d(i) == diff_of(answers'[i], correct_num)
              exact == {i \in shown_rows(answers') : d(i) = 0}
              non_exact == {i \in shown_rows(answers') : d(i) # 0}
              scored == {i \in non_exact : answers'[i].score \in 1..TopScore}
          IN /\ \A i \in exact : answers'[i].score = MaxScore
             /\ Cardinality(scored) = min2(TopCount, Cardinality(non_exact))
             /\ \A i \in scored, j \in non_exact \ scored : d(i) <= d(j)
             /\ \A i \in scored : (\A j \in scored : d(j) <= d(i)) => answers'[i].score = 1
             /\ \A j \in non_exact \ scored : answers'[j].score = 0]_vars

\* C17: a top-10 finalization run again over the same stored answers leaves
\* every score and every correctness flag as the run before left them.
C17_FinalizationIdempotent ==
    [][(last.op \in {"reveal_answer", "reveal_again"} /\ last'.op = "reveal_again")
       => answers' = answers]_vars

\* a second finalization over more than ten non-exact submissions, one of them
\* cut to 0, next to an exact one
C17_witness ==
    /\ last.op = "reveal_again"
    /\ Cardinality({i \in shown_rows(answers) : diff_of(answers[i], extract_number_from_text(Correct150)) # 0}) > TopCount
    /\ \E i \in shown_rows(answers) : diff_of(answers[i], extract_number_from_text(Correct150)) # 0 /\ answers[i].score = 0
    /\ \E i \in shown_rows(answers) : diff_of(answers[i], extract_number_from_text(Correct150)) # 0 /\ answers[i].score = TopScore - 1
    /\ \E i \in shown_rows(answers) : diff_of(answers[i], extract_number_from_text(Correct150)) = 0 /\ answers[i].score = MaxScore

\* the personal_feedback messages a step sent to connection c
feedback_to(box, c) ==
    {i \in DOMAIN box : box[i].type = "personal_feedback" /\ box[i].conn = c}

\* C21: a submission to the multiple-choice question shown is correct iff it
\* equals the canonical answer after trimming and case folding; a correct one
\* scores max(0, 30 - elapsed seconds) without its fraction, an incorrect one
\* 0, and every such score lies in 0..30.
C21_ChoiceScore ==
    [][(/\ last'.op = "answer"
        /\ current_question.type = "multiple_choice"
        /\ last'.qid = current_question.id)
       => LET equal == normalise(last'.text) = normalise(current_question.correct_answer)
              left == 10 * MaxScore - last'.elapsed
              expected == IF equal /\ left > 0 THEN left \div 10 ELSE 0
          IN /\ expected \in 0..MaxScore
             /\ \E i \in RowsOf(answers', last', current_game) :
                   /\ answers'[i].content = last'.text
                   /\ answers'[i].is_correct = equal
                   /\ answers'[i].score = expected
             /\ \A i \in feedback_to(outbox', last'.conn) :
                   /\ outbox'[i].body[1] = (IF equal THEN 1 ELSE 0)
                   /\ outbox'[i].body[2] = expected
                   /\ outbox'[i].body[2] \in 0..MaxScore]_vars

\* an answer equal up to case and blanks, sent 3.7 s after the question: 26
C21_witness ==
    /\ last.op = "answer"
    /\ current_question.type = "multiple_choice"
    /\ last.text = <<"b", " ">>
    /\ last.elapsed = 37
    /\ \E i \in feedback_to(outbox, 1) : outbox[i].body[1] = 1 /\ outbox[i].body[2] = 26

C23_RefusedJoinClosedWithReason ==
    [][last'.op = "join_refused"
       => /\ \E i \in DOMAIN outbox' : /\ outbox'[i].type = "close"
                                       /\ outbox'[i].conn = last'.conn
                                       /\ outbox'[i].body # <<>>
          /\ pname' = pname
          /\ session_state' = session_state]_vars

\* C24: for a word-cloud question, an answer submission finalizes only when
\* every live participant connection has a submission for the question shown,
\* whatever joins and disconnects came before.
C24_FinalizeWhenAllLiveSubmitted ==
    [][(last'.op = "answer" /\ current_question.type = "word_cloud"
        /\ ~word_cloud_scored /\ word_cloud_scored')
       => \A c \in participant_connections :
             \E i \in 1..Len(answers') : /\ answers'[i].user_id = c
                                         /\ answers'[i].question_id = current_question.id
                                         /\ answers'[i].game_id = current_game]_vars

\* C27: an answer of a joined participant to the question shown that the
\* post-winner guard lets through is answered with exactly one
\* personal_feedback, sent to the submitter and to no other participant.
C27_OneFeedbackToSubmitter ==
    [][(last'.op = "answer" /\ current_question # NoQuestion)
       => /\ Cardinality(feedback_to(outbox', last'.conn)) = 1
          /\ \A c \in Conns \ {last'.conn} : feedback_to(outbox', c) = {}]_vars

\* C25: the clustering puts every submission in exactly one cluster, the
\* representative of a cluster is a most frequent exact string among its
\* members, and eggnog, eggnog latte, hot chocolate, eggnog, with eggnog and
\* eggnog latte found similar, give two clusters, the larger of size 3 with
\* representative eggnog.
C25_ClustersPartition ==
    last.op = "cluster" =>
        LET cm == last.cluster_map
            n == Len(last.answers)
            count(k, t) == Cardinality({p \in 1..Len(cm[k].answers) : cm[k].answers[p] = t})
            holds(k, i) == \E p \in 1..Len(cm[k].users) :
                              /\ cm[k].users[p] = last.answers[i][1]
                              /\ cm[k].answers[p] = last.answers[i][2]
        IN /\ \A i \in 1..n : Cardinality({k \in DOMAIN cm : holds(k, i)}) = 1
           /\ \A k \in DOMAIN cm :
                 /\ Len(cm[k].users) = Len(cm[k].answers)
                 /\ Len(cm[k].users) >= 1
                 /\ \E p \in 1..Len(cm[k].answers) : cm[k].answers[p] = cm[k].rep
                 /\ \A p \in 1..Len(cm[k].answers) :
                       count(k, cm[k].answers[p]) <= count(k, cm[k].rep)
           /\ ([i \in 1..n |-> last.answers[i][2]]
                   = << Eggnog, EggnogLatte, HotChocolate, Eggnog >>
               /\ last.similar = { {Eggnog, EggnogLatte} })
              => /\ Len(cm) = 2
                 /\ \E k \in DOMAIN cm : /\ Len(cm[k].users) = 3
                                         /\ cm[k].rep = Eggnog
                                         /\ \A j \in DOMAIN cm : Len(cm[j].users) <= 3

\* the four submissions of the example, clustered
C25_witness ==
    /\ last.op = "cluster"
    /\ [i \in 1..Len(last.answers) |-> last.answers[i][2]]
           = << Eggnog, EggnogLatte, HotChocolate, Eggnog >>
    /\ last.similar = { {Eggnog, EggnogLatte} }
    /\ Len(last.cluster_map) = 2
    /\ last.cluster_map[1].rep = Eggnog

\* C26: when a countdown reaches zero without having been cancelled, a
\* time_expired event goes to the participants as well as to the moderators.
C26_ExpiryReachesParticipants ==
    (/\ last.op = "timer_tick"
     /\ \E i \in 1..Len(outbox) : outbox[i].type = "time_expired" /\ outbox[i].to = "admins")
    => \E i \in 1..Len(outbox) :
          outbox[i].type = "time_expired" /\ outbox[i].to = "participants"

\* the phrase-reveal question on show has had no start_wof_countdown yet
awaiting_start ==
    /\ current_question.type = "wheel_of_fortune"
    /\ wof_reveal_task = 0

\* C28: right after advancing to a phrase-reveal question the mask has one
\* entry per character of the phrase, revealed exactly at the characters that
\* are not alphanumeric, no reveal engine and no countdown is running, and
\* the mask stays as it is until start_wof_countdown is received.
C28_MaskWaitsForStart ==
    /\ [](last.op = "next_question" /\ current_question.type = "wheel_of_fortune"
          => LET phrase == current_question.correct_answer
             IN /\ wof_revealed_indices # <<>>
                /\ Len(wof_revealed_indices[1]) = Len(phrase)
                /\ \A i \in 1..Len(phrase) :
                      wof_revealed_indices[1][i] = ~isalnum(phrase[i])
                /\ \A e \in 1..MaxEngines : ~engines[e].live
                /\ \A t \in 1..MaxTasks : ~timers[t].live)
    /\ [][(/\ awaiting_start
           /\ awaiting_start'
           /\ current_question' = current_question
           /\ current_question_index' = current_question_index)
          => wof_revealed_indices' = wof_revealed_indices]_vars

\* a wake-up of engine e in which the engine ends (a cancelled engine never
\* wakes)
engine_ends(e) ==
    /\ last'.op \in {"engine_step", "stale_engine_step"}
    /\ engines[e].live
    /\ ~engines'[e].live

\* the positions a step turns from hidden to revealed
newly_revealed ==
    IF wof_revealed_indices = <<>> \/ wof_revealed_indices' = <<>> THEN {}
    ELSE {i \in 1..Len(wof_revealed_indices'[1]) :
             /\ wof_revealed_indices'[1][i]
             /\ i <= Len(wof_revealed_indices[1]) => ~wof_revealed_indices[1][i]}

\* C29: an engine step reveals every position of the phrase on show that
\* holds the selected letter, in either case, and an engine that ends without
\* having been cancelled leaves every letter position of its phrase revealed
\* (the claim also bounds the number of steps by the number of distinct
\* letters; the formula states what the claim implies at a step and at the
\* end of an engine).
C29_EngineRevealsEveryLetter ==
    [][/\ last'.op \in {"engine_step", "stale_engine_step"}
          => LET phrase == current_question.correct_answer
             IN \A i \in newly_revealed : \A j \in 1..Len(phrase) :
                   (i <= Len(phrase) /\ upper(phrase[j]) = upper(phrase[i]))
                   => (j <= Len(wof_revealed_indices'[1]) /\ wof_revealed_indices'[1][j])
       /\ \A e \in 1..MaxEngines :
             engine_ends(e)
             => LET phrase == engines[e].phrase
                IN /\ wof_revealed_indices' # <<>>
                   /\ \A i \in 1..Len(phrase) :
                         isalpha(phrase[i])
                         => (i <= Len(wof_revealed_indices'[1])
                             /\ wof_revealed_indices'[1][i])]_vars

\* the engine started by a start_wof_countdown request ends before it sleeps
\* for the first time
engine_ends_at_start ==
    /\ last'.op = "start_wof_countdown"
    /\ wof_reveal_task' = DoneTask

\* C30: whenever a started reveal engine ends without having been cancelled
\* and no winner is set, a wof_update with finished = true goes to the
\* moderators, whatever the phrase is, one without letters included.
C30_FinishedAnnounced ==
    [][((engine_ends_at_start \/ \E e \in 1..MaxEngines : engine_ends(e))
        /\ wof_winner' = NoName)
       => \E i \in 1..Len(outbox') :
             /\ outbox'[i].type = "wof_update"
             /\ outbox'[i].to = "admins"
             /\ outbox'[i].val = 1]_vars

\* the duration the countdown of the question on show is to have
stated_duration(cq) == IF cq.type = "pictionary" THEN 60 ELSE 30

\* C31: a countdown of a question that is not a phrase reveal starts with a
\* timer_update of D (60 for pictionary, 30 otherwise) and every wake-up
\* sends the next lower value, down to 0, each to the participants and to the
\* moderators; the expiry event comes only with the value 0 and after it.
C31_CountdownSequence ==
    [][\A t \in 1..MaxTasks :
          /\ (~timers[t].live /\ timers'[t].live /\ timers'[t].kind = "question")
             => LET D == stated_duration(current_question')
                IN /\ timers'[t].time_left = D
                   /\ \E i \in 1..(Len(outbox') - 1) :
                         /\ outbox'[i] = ToParticipants("timer_update", t, D)
                         /\ outbox'[i + 1] = ToAdmins("timer_update", t, D)
                   /\ \A i \in 1..Len(outbox') : outbox'[i].type # "time_expired"
          /\ (/\ last'.op \in {"timer_tick", "stale_timer_tick"}
              /\ timers[t].live /\ timers[t].kind = "question"
              /\ outbox'[1].src = t)
             => LET left == timers[t].time_left - 1
                IN /\ left >= 0
                   /\ outbox'[1] = ToParticipants("timer_update", t, left)
                   /\ outbox'[2] = ToAdmins("timer_update", t, left)
                   /\ timers'[t].live = (left > 0)
                   /\ left > 0 => timers'[t].time_left = left
                   /\ \A i \in 1..Len(outbox') :
                         outbox'[i].type = "time_expired" => (left = 0 /\ i > 2)
                   /\ left = 0 => \E i \in 3..Len(outbox') : outbox'[i].type = "time_expired"]_vars

\* the countdown of the pictionary question has run from 60 down to 0
C31_witness ==
    /\ last.op = "timer_tick"
    /\ current_question.type = "pictionary"
    /\ Len(outbox) >= 3
    /\ outbox[1].type = "timer_update" /\ outbox[1].val = 0
    /\ outbox[3].type = "time_expired"

\* C32: no step of a countdown task, of the reveal engine or of the periodic
\* status task changes the current game, the current question, the cursor or
\* the question total taken at the start of the quiz.
C32_TasksKeepSession ==
    [][last'.op \in {"timer_tick", "stale_timer_tick", "engine_step",
                     "stale_engine_step", "status_update"}
       => /\ current_game' = current_game
          /\ current_question' = current_question
          /\ current_question_index' = current_question_index
          /\ total_questions' = total_questions]_vars

\* a countdown has expired on the word-cloud question and finalized it
C32_witness ==
    /\ last.op = "timer_tick"
    /\ current_question.type = "word_cloud"
    /\ word_cloud_scored
    /\ current_game # 0

\* C33: once the word-cloud finalization has run for the question on show,
\* an answer submitted to it later leaves the stored Answer rows of that
\* question as they are.
C33_NoAnswerAfterFinalization ==
    [][(/\ current_question.type = "word_cloud"
        /\ word_cloud_scored
        /\ last'.op = "answer"
        /\ last'.qid = current_question.id)
       => LET stored(rows) == [i \in question_rows(rows, current_question.id, current_game)
                                  |-> rows[i]]
          IN stored(answers') = stored(answers)]_vars

\* the questions participant c has rows for in the current game
answered_by(c) ==
    {answers[i].question_id : i \in {j \in 1..Len(answers) :
                                        /\ answers[j].user_id = c
                                        /\ answers[j].game_id = current_game}}

\* C34: the cumulative score of a participant counts a question at most
\* once: it never exceeds 30 for each distinct question answered, and an
\* answer to a question already answered correctly does not raise it.
C34_QuestionCountedOnce ==
    /\ [](\A c \in Conns :
             total_score_of(answers, c, current_game) <= 30 * Cardinality(answered_by(c)))
    /\ [][\A c \in Conns :
             (/\ last'.op = "answer"
              /\ last'.conn = c
              /\ current_game' = current_game
              /\ \E i \in 1..Len(answers) : /\ answers[i].user_id = c
                                            /\ answers[i].game_id = current_game
                                            /\ answers[i].question_id = last'.qid
                                            /\ answers[i].is_correct)
             => total_score_of(answers', c, current_game)
                   <= total_score_of(answers, c, current_game)]_vars

\* C35: at most one countdown task is live at any time, and a live countdown
\* task is the one the timer handle refers to, whatever next_question,
\* start_wof_countdown, start_quiz and end_quiz requests were made.
C35_OneCountdownHeld ==
    /\ Cardinality(LiveTimers) <= 1
    /\ \A t \in LiveTimers : question_timer = t

\* C36: within one game no question is presented as the current question
\* more than once, whatever the moderator reorders, adds, deletes and
\* advances; in particular an advance never presents again the question
\* that the game has on show.
C36_NoQuestionTwice ==
    [][(/\ last'.op = "next_question"
        /\ Len(games) = 1
        /\ current_game = 1
        /\ current_game' = 1
        /\ current_question # NoQuestion)
       => current_question'.id # current_question.id]_vars

\* C37: after end_quiz, or after the reset a database switch performs, a
\* reveal engine started during the game that ended sends no further
\* wof_update and leaves the revealed mask as it is (with no game in progress
\* every live engine is one of an ended game).
C37_EnginesQuietAfterEnd ==
    [][(/\ current_game = 0
        /\ last'.op \in {"engine_step", "stale_engine_step"})
       => /\ \A i \in DOMAIN outbox' : outbox'[i].type # "wof_update"
          /\ wof_revealed_indices' = wof_revealed_indices]_vars

\* C38: the participant registry holds only connections that completed a
\* valid join and whose handler is still running: a connection whose handler
\* has ended (a refused join, an error, the rejection of the winner's answer)
\* is not counted any more.
C38_RegistryOfRunningHandlers ==
    \A c \in Conns : pstate[c] = "ended" => c \notin participant_connections

\* participant c holds a correct guess of the phrase on show (the winner
\* does: the winning guess is stored in the step that sets the winner)
guessed_right(c) ==
    \E i \in 1..Len(answers) : /\ answers[i].user_id = c
                               /\ answers[i].question_id = current_question.id
                               /\ answers[i].game_id = current_game
                               /\ answers[i].is_correct

\* C39: the post-winner guard stops the winning participant only: an answer
\* of another participant who bears the winner's display name is not turned
\* away by it.
C39_GuardStopsWinnerOnly ==
    [][\A c \in Conns :
          (last'.op = "answer_rejected" /\ last'.conn = c) => guessed_right(c)]_vars

\* the words of a board laid end to end
RECURSIVE laid_out(_)
laid_out(words) == IF words = <<>> THEN <<>> ELSE Head(words) \o laid_out(Tail(words))

\* no letter stands unmasked on the board words of phrase unless the mask
\* has its position revealed: the n-th character of the board is the n-th
\* character of the phrase that is not a space
board_within_mask(words, phrase, maskOpt) ==
    LET shown == laid_out(words)
        at(n) == CHOOSE i \in 1..Len(phrase) :
                    /\ phrase[i] # " "
                    /\ Cardinality({j \in 1..i : phrase[j] # " "}) = n
    IN \A n \in 1..Len(shown) :
          isalpha(shown[n])
          => /\ maskOpt # <<>>
             /\ n <= Cardinality({j \in 1..Len(phrase) : phrase[j] # " "})
             /\ at(n) <= Len(maskOpt[1])
             /\ maskOpt[1][at(n)]

\* C40: in every wof_update a letter of the phrase stands unmasked in the
\* words of the board only if the mask has its position revealed, whatever
\* spaces the phrase begins with, ends with or has in a row (the update a
\* start_wof_countdown request sends first shows the mask the request found,
\* the updates of an engine pass the mask the pass leaves and the phrase the
\* engine was started with).
C40_BoardWithinMask ==
    [][/\ last'.op = "start_wof_countdown"
          => /\ board_within_mask(outbox'[1].body, current_question.correct_answer,
                                  wof_revealed_indices)
             /\ \A i \in 2..Len(outbox') :
                   outbox'[i].type = "wof_update"
                   => board_within_mask(outbox'[i].body, current_question.correct_answer,
                                        wof_revealed_indices')
       /\ last'.op \in {"engine_step", "stale_engine_step"}
          => \A i \in 1..Len(outbox') :
                outbox'[i].type = "wof_update"
                => board_within_mask(outbox'[i].body, engines[outbox'[i].src].phrase,
                                     wof_revealed_indices')]_vars

====
